---- MODULE Spec2Model ----
(***************************************************************************)
(* cf2: the metamodel tree engine of src/src/cf2.py.                       *)
(*                                                                         *)
(* Python values are records [ty, n, s, items]; a dict is the sequence of  *)
(* its (key, value) items in iteration (insertion) order.  A metamodel is  *)
(* an arena of nodes (a sequence; a node's id is its index) with parent    *)
(* and children links, as the constructors of the source build it.  Text   *)
(* (file contents, error lines) is modelled by TLA+ strings.               *)
(***************************************************************************)
EXTENDS Integers, Sequences, FiniteSets, TLC

VARIABLES
    metamodel,  \* the MetaModel the run works with: [nodes, root]
    files,      \* live system: file name -> text of the backing file
    readonly,   \* live system: the files whose open(.., "w") fails
    release,    \* live system: platform.uname().release
    rawdata,    \* the raw values the caller holds (parsed configuration files)
    left,       \* the TypecheckedModel the caller made of a raw value, or None
    right,      \* a second one (of the second raw value, or read from the system)
    op,         \* the operation performed last and its arguments
    result,     \* what it returned: [raised, exc, success, errors, model]
    calls,      \* its adapter calls, in order
    nops,       \* the number of operations performed on the live system so far
    output      \* the text PrintTree wrote to its output stream

vars == <<metamodel, files, readonly, release, rawdata, left, right, op,
          result, calls, nops, output>>

-----------------------------------------------------------------------------
(* Python values *)

None == [ty |-> "NoneType", n |-> 0, s |-> "", items |-> <<>>]
PyInt(n) == [ty |-> "int", n |-> n, s |-> "", items |-> <<>>]
PyBool(b) == [ty |-> "bool", n |-> IF b THEN 1 ELSE 0, s |-> "", items |-> <<>>]
PyStr(s) == [ty |-> "str", n |-> 0, s |-> s, items |-> <<>>]
\* a list is never looked into by the engine: n stands for its contents
PyList(n) == [ty |-> "list", n |-> n, s |-> "", items |-> <<>>]
PyDict(items) == [ty |-> "dict", n |-> 0, s |-> "", items |-> items]
Item(k, v) == [k |-> k, v |-> v]

Range(f) == {f[i] : i \in DOMAIN f}

\* the keys of a dict, in iteration order
Keys(d) == [i \in DOMAIN d.items |-> d.items[i].k]

\* k in d
HasKey(d, k) == \E i \in DOMAIN d.items : d.items[i].k = k

\* d[k]
GetItem(d, k) == d.items[CHOOSE i \in DOMAIN d.items : d.items[i].k = k].v

\* d[k] = v, keeping the position of an existing key and appending a new one
SetItem(d, k, v) ==
    IF HasKey(d, k)
    THEN PyDict([i \in DOMAIN d.items |->
                    IF d.items[i].k = k THEN Item(k, v) ELSE d.items[i]])
    ELSE PyDict(Append(d.items, Item(k, v)))

\* a == b of Python: dicts compare as mappings (order-insensitive), bool is
\* an int subtype (True == 1), everything else by type and value
RECURSIVE PyEq(_, _)
PyEq(a, b) ==
    IF a.ty = "dict" /\ b.ty = "dict"
    THEN /\ Len(a.items) = Len(b.items)
         /\ \A i \in DOMAIN a.items :
                /\ HasKey(b, a.items[i].k)
                /\ PyEq(a.items[i].v, GetItem(b, a.items[i].k))
    ELSE IF a.ty \in {"int", "bool"} /\ b.ty \in {"int", "bool"}
    THEN a.n = b.n
    ELSE a.ty = b.ty /\ a.n = b.n /\ a.s = b.s

\* ', '.join / '.'.join
RECURSIVE Join(_, _)
Join(strs, sep) ==
    IF strs = <<>> THEN ""
    ELSE IF Len(strs) = 1 THEN strs[1]
    ELSE strs[1] \o sep \o Join(Tail(strs), sep)

\* repr(v) and str(v) as an f-string renders them
RECURSIVE PyRepr(_)
PyRepr(v) ==
    CASE v.ty = "int" -> ToString(v.n)
      [] v.ty = "bool" -> IF v.n = 1 THEN "True" ELSE "False"
      [] v.ty = "str" -> "'" \o v.s \o "'"
      [] v.ty = "NoneType" -> "None"
      [] v.ty = "list" -> "[" \o ToString(v.n) \o "]"
      [] v.ty = "dict" ->
            "{" \o Join([i \in DOMAIN v.items |->
                            "'" \o v.items[i].k \o "': " \o PyRepr(v.items[i].v)],
                        ", ") \o "}"

PyFormat(v) == IF v.ty = "str" THEN v.s ELSE PyRepr(v)

-----------------------------------------------------------------------------
(* Meta tree structure classes *)

NoPlug == [kind |-> "None", file |-> ""]

\* MetaTreeFixedDict.RegisterChild: the child's id is appended to the
\* children of the parent (the assertion on the name is the caller's guard)
RegisterChild(nodes, parent, ch) ==
    [nodes EXCEPT ![parent].children = Append(@, ch)]

\* MetaTreeNode.__init__ for both node classes: the new node gets the next
\* id of the arena and is registered with its parent (0: no parent)
MetaTreeNode(nodes, kind, name, helpstring, applyable, ty, parent, plug) ==
    LET id == Len(nodes) + 1
        node == [name |-> name, helpstring |-> helpstring,
                 applyable |-> applyable, parent |-> parent, plug |-> plug,
                 kind |-> kind, ty |-> ty, children |-> <<>>]
        added == Append(nodes, node)
    IN IF parent = 0 THEN added ELSE RegisterChild(added, parent, id)

MetaTreeFixedDict(nodes, name, helpstring, applyable, parent, plug) ==
    MetaTreeNode(nodes, "FixedDict", name, helpstring, applyable, "", parent, plug)

MetaTreeScalar(nodes, name, helpstring, applyable, ty, parent, plug) ==
    MetaTreeNode(nodes, "Scalar", name, helpstring, applyable, ty, parent, plug)

MetaModel(nodes, root) == [nodes |-> nodes, root |-> root]

\* MetaTreeNode.Path
RECURSIVE Path(_, _)
Path(mm, id) ==
    IF mm.nodes[id].parent # 0
    THEN Append(Path(mm, mm.nodes[id].parent), mm.nodes[id].name)
    ELSE <<mm.nodes[id].name>>

\* '.'.join(node.Path())
PathStr(mm, id) == Join(Path(mm, id), ".")

\* MetaTreeFixedDict.ChildrenNames
ChildrenNames(mm, id) ==
    [i \in DOMAIN mm.nodes[id].children |-> mm.nodes[mm.nodes[id].children[i]].name]

\* MetaTreeFixedDict.__getitem__: node[k]
Child(mm, id, k) ==
    CHOOSE c \in Range(mm.nodes[id].children) : mm.nodes[c].name = k

\* MetaTreeFixedDict.TypeString / MetaTreeScalar.TypeString
TypeString(mm, id) ==
    IF mm.nodes[id].kind = "FixedDict" THEN "FixedDict" ELSE mm.nodes[id].ty

-----------------------------------------------------------------------------
(* MetaTreeTypeChecker *)

RECURSIVE TypeChecker_AcceptVisitor(_, _, _, _)
RECURSIVE TypeChecker_CandidateLoop(_, _, _, _, _)

\* a faulty second loop: no missing child is reported
TypeChecker_MissingLoop_Skipped(mm, id, data, i, errlist) == errlist

\* the second loop of VisitFixedDict: the declared children missing from data
RECURSIVE TypeChecker_MissingLoop(_, _, _, _, _)
TypeChecker_MissingLoop(mm, id, data, i, errlist) ==
    IF i > Len(mm.nodes[id].children) THEN errlist
    ELSE LET k == ChildrenNames(mm, id)[i]
             err == PathStr(mm, id) \o ": missing \"" \o k \o "\" field [Type = "
                    \o TypeString(mm, Child(mm, id, k)) \o "]"
         IN TypeChecker_MissingLoop(mm, id, data, i + 1,
                IF ~HasKey(data, k) THEN Append(errlist, err) ELSE errlist)

\* a faulty first loop: the keys of data are walked last to first
RECURSIVE TypeChecker_CandidateLoop_Reversed(_, _, _, _, _)
TypeChecker_CandidateLoop_Reversed(mm, id, data, i, errlist) ==
    IF i > Len(data.items) THEN errlist
    ELSE LET it == data.items[Len(data.items) + 1 - i]
         IN TypeChecker_CandidateLoop_Reversed(mm, id, data, i + 1,
                IF it.k \notin Range(ChildrenNames(mm, id))
                THEN Append(errlist,
                        PathStr(mm, id) \o ": \"" \o it.k \o "\" is not a valid key")
                ELSE TypeChecker_AcceptVisitor(mm, Child(mm, id, it.k), it.v, errlist))

\* the first loop of VisitFixedDict: for k in self.__data
TypeChecker_CandidateLoop(mm, id, data, i, errlist) ==
    IF i > Len(data.items) THEN errlist
    ELSE LET k == data.items[i].k
         IN TypeChecker_CandidateLoop(mm, id, data, i + 1,
                IF k \notin Range(ChildrenNames(mm, id))
                THEN Append(errlist,
                        PathStr(mm, id) \o ": \"" \o k \o "\" is not a valid key")
                ELSE TypeChecker_AcceptVisitor(mm, Child(mm, id, k),
                                               data.items[i].v, errlist))

\* a faulty VisitFixedDict: the missing children are reported before the
\* keys of data are walked
TypeChecker_VisitFixedDict_MissingFirst(mm, id, data, errlist) ==
    IF data.ty # "dict"
    THEN Append(errlist, PathStr(mm, id)
                \o ": type mismatch (expected: dict got: " \o data.ty \o ")")
    ELSE TypeChecker_CandidateLoop(mm, id, data, 1,
            TypeChecker_MissingLoop(mm, id, data, 1, errlist))

TypeChecker_VisitFixedDict(mm, id, data, errlist) ==
    IF data.ty # "dict"
    THEN Append(errlist, PathStr(mm, id)
                \o ": type mismatch (expected: dict got: " \o data.ty \o ")")
    ELSE TypeChecker_MissingLoop(mm, id, data, 1,
            TypeChecker_CandidateLoop(mm, id, data, 1, errlist))

\* a faulty VisitScalar: the comparison of the types is inverted
TypeChecker_VisitScalar_Inverted(mm, id, data, errlist) ==
    IF data.ty = mm.nodes[id].ty
    THEN Append(errlist, PathStr(mm, id) \o ": type mismatch (expected: "
                \o TypeString(mm, id) \o " got: " \o data.ty \o ")")
    ELSE errlist

TypeChecker_VisitScalar(mm, id, data, errlist) ==
    IF data.ty # mm.nodes[id].ty
    THEN Append(errlist, PathStr(mm, id) \o ": type mismatch (expected: "
                \o TypeString(mm, id) \o " got: " \o data.ty \o ")")
    ELSE errlist

\* node.AcceptVisitor(MetaTreeTypeChecker(data, errlist))
TypeChecker_AcceptVisitor(mm, id, data, errlist) ==
    IF mm.nodes[id].kind = "FixedDict"
    THEN TypeChecker_VisitFixedDict(mm, id, data, errlist)
    ELSE TypeChecker_VisitScalar(mm, id, data, errlist)

\* MetaModel.TypeCheck
TypeCheck(mm, data) == TypeChecker_AcceptVisitor(mm, mm.root, data, <<>>)

\* TypecheckedModel(data, metamodel)
TypecheckedModel(data, mm) ==
    [ty |-> "TypecheckedModel", rawdata |-> data, metamodel |-> mm]

\* CreateTypecheckedModelResult(success, errors, model)
CreateTypecheckedModelResult(success, errors, model) ==
    [raised |-> FALSE, success |-> success, errors |-> errors, model |-> model]

\* a faulty CreateTypecheckedModel: the model is made whatever the errors
CreateTypecheckedModel_AlwaysModel(mm, data) ==
    LET Ret(errs) ==
            CreateTypecheckedModelResult(errs = <<>>, errs, TypecheckedModel(data, mm))
    IN Ret(TypeCheck(mm, data))

\* MetaModel.CreateTypecheckedModel
CreateTypecheckedModel(mm, data) ==
    LET Ret(errs) ==
            IF errs # <<>>
            THEN CreateTypecheckedModelResult(FALSE, errs, None)
            ELSE CreateTypecheckedModelResult(TRUE, <<>>, TypecheckedModel(data, mm))
    IN Ret(TypeCheck(mm, data))

-----------------------------------------------------------------------------
(* Text: the str methods the plugs use *)

Whitespace == {" ", "\n", "\t"}
DigitChars == "0123456789"
UpperChars == "ABCDEFGHIJKLMNOPQRSTUVWXYZ"
LowerChars == "abcdefghijklmnopqrstuvwxyz"

CharAt(s, i) == SubSeq(s, i, i)

\* s.rstrip()
RECURSIVE RStrip(_)
RStrip(s) ==
    IF s # "" /\ CharAt(s, Len(s)) \in Whitespace
    THEN RStrip(SubSeq(s, 1, Len(s) - 1))
    ELSE s

\* s.lstrip()
RECURSIVE LStrip(_)
LStrip(s) ==
    IF s # "" /\ Head(s) \in Whitespace THEN LStrip(Tail(s)) ELSE s

\* s.lower()
RECURSIVE StrLower(_)
StrLower(s) ==
    IF s = "" THEN ""
    ELSE LET c == Head(s)
             lc == IF \E i \in 1..Len(UpperChars) : CharAt(UpperChars, i) = c
                   THEN CharAt(LowerChars,
                               CHOOSE i \in 1..Len(UpperChars) : CharAt(UpperChars, i) = c)
                   ELSE c
         IN lc \o StrLower(Tail(s))

\* s.split(sep) for a one-character sep: the pieces between the separators
RECURSIVE SplitOn(_, _, _)
SplitOn(s, sep, cur) ==
    IF s = "" THEN <<cur>>
    ELSE IF Head(s) = sep THEN <<cur>> \o SplitOn(Tail(s), sep, "")
    ELSE SplitOn(Tail(s), sep, cur \o Head(s))

StrSplit(s, sep) == SplitOn(s, sep, "")

\* s.split(): the words between runs of whitespace, none of them empty
RECURSIVE SplitWords(_, _)
SplitWords(s, cur) ==
    IF s = "" THEN (IF cur = "" THEN <<>> ELSE <<cur>>)
    ELSE IF Head(s) \in Whitespace
    THEN (IF cur = "" THEN <<>> ELSE <<cur>>) \o SplitWords(Tail(s), "")
    ELSE SplitWords(Tail(s), cur \o Head(s))

StrSplitWords(s) == SplitWords(s, "")

IsDigit(c) == \E i \in 1..Len(DigitChars) : CharAt(DigitChars, i) = c
DigitValue(c) == (CHOOSE i \in 1..Len(DigitChars) : CharAt(DigitChars, i) = c) - 1

RECURSIVE AllDigits(_)
AllDigits(s) == s = "" \/ (IsDigit(Head(s)) /\ AllDigits(Tail(s)))

RECURSIVE DigitsValue(_, _)
DigitsValue(s, acc) ==
    IF s = "" THEN acc ELSE DigitsValue(Tail(s), 10 * acc + DigitValue(Head(s)))

\* int(s): surrounding whitespace and one sign are accepted, then decimal
\* digits only; [ok |-> FALSE] stands for ValueError
ParseInt(s) ==
    LET Unsigned(digits, negative) ==
            IF digits = "" \/ ~AllDigits(digits)
            THEN [ok |-> FALSE, n |-> 0]
            ELSE [ok |-> TRUE,
                  n |-> IF negative THEN 0 - DigitsValue(digits, 0)
                        ELSE DigitsValue(digits, 0)]
        Stripped(t) ==
            IF t # "" /\ Head(t) \in {"+", "-"}
            THEN Unsigned(Tail(t), Head(t) = "-")
            ELSE Unsigned(t, FALSE)
    IN Stripped(LStrip(RStrip(s)))

\* bool(v) of Python
Truthy(v) ==
    CASE v.ty \in {"int", "bool"} -> v.n # 0
      [] v.ty = "str" -> v.s # ""
      [] v.ty = "dict" -> v.items # <<>>
      [] v.ty = "list" -> v.n # 0
      [] OTHER -> FALSE

-----------------------------------------------------------------------------
(* Kernel version processing *)

\* KernelVersionNumber.__init__: w.x.y-z-suffix; [ok |-> FALSE] stands for
\* the IndexError / ValueError of a string of another style
KernelVersionNumber(version_string) ==
    LET NoVersion == [ok |-> FALSE, w |-> 0, x |-> 0, y |-> 0, z |-> 0, suffix |-> ""]
        Fields(w, x, y, z, suffix) ==
            IF ~(w.ok /\ x.ok /\ y.ok /\ z.ok) THEN NoVersion
            ELSE [ok |-> TRUE, w |-> w.n, x |-> x.n, y |-> y.n, z |-> z.n,
                  suffix |-> suffix]
        Bottom(top_split, bottom_split) ==
            IF Len(bottom_split) < 3 \/ Len(top_split) < 2 THEN NoVersion
            ELSE Fields(ParseInt(bottom_split[1]), ParseInt(bottom_split[2]),
                        ParseInt(bottom_split[3]), ParseInt(top_split[2]),
                        IF Len(top_split) = 3 THEN top_split[3] ELSE "")
        Top(top_split) == Bottom(top_split, StrSplit(top_split[1], "."))
    IN Top(StrSplit(version_string, "-"))

\* GetKernelVersion, on the release string of the live system
GetKernelVersion(sys) == KernelVersionNumber(sys.release)

-----------------------------------------------------------------------------
(* Plugs.  sys = [files, readonly, release] is the live system.  Read      *)
(* returns [ok, val, exc]; Write returns [ok, files, exc]: an exception    *)
(* is ok = FALSE with its text in exc.                                     *)

Returned(val) == [ok |-> TRUE, val |-> val, exc |-> ""]
Raised(exc) == [ok |-> FALSE, val |-> None, exc |-> exc]

FileStrPlug(filename) == [kind |-> "FileStrPlug", file |-> filename]
ThpOptionPlug(filename) == [kind |-> "ThpOptionPlug", file |-> filename]
FileIntPlug(filename) == [kind |-> "FileIntPlug", file |-> filename]
FileBoolPlug(filename) == [kind |-> "FileBoolPlug", file |-> filename]
KvnPlug == [kind |-> "KvnPlug", file |-> ""]

\* FileStrPlug.Read
FileStrPlug_Read(p, sys) ==
    IF p.file \notin DOMAIN sys.files
    THEN Raised("[Errno 2] No such file or directory: '" \o p.file \o "'")
    ELSE Returned(PyStr(RStrip(sys.files[p.file])))

\* FileStrPlug.Write: open(.., "w") truncates the file, write() wants a str
FileStrPlug_Write(p, value, sys) ==
    IF p.file \in sys.readonly \/ p.file \notin DOMAIN sys.files
    THEN [ok |-> FALSE, files |-> sys.files,
          exc |-> "[Errno 13] Permission denied: '" \o p.file \o "'"]
    ELSE IF value.ty # "str"
    THEN [ok |-> FALSE, files |-> [sys.files EXCEPT ![p.file] = ""],
          exc |-> "write() argument must be str, not " \o value.ty]
    ELSE [ok |-> TRUE, files |-> [sys.files EXCEPT ![p.file] = value.s], exc |-> ""]

\* a faulty loop: the last bracketed word is taken
FirstBracketed_Last(words) ==
    LET hits == {i \in DOMAIN words :
                    Head(words[i]) = "[" /\ CharAt(words[i], Len(words[i])) = "]"}
    IN IF hits = {} THEN 0 ELSE CHOOSE i \in hits : \A j \in hits : i >= j

\* the first bracketed word of ThpOptionPlug.Read's loop, 0 if there is none
FirstBracketed(words) ==
    LET hits == {i \in DOMAIN words :
                    Head(words[i]) = "[" /\ CharAt(words[i], Len(words[i])) = "]"}
    IN IF hits = {} THEN 0 ELSE CHOOSE i \in hits : \A j \in hits : i <= j

\* ThpOptionPlug.Read
ThpOptionPlug_Read(p, sys) ==
    LET Option(words, hit) ==
            IF hit = 0 THEN Raised("error reading thp option")
            ELSE Returned(PyStr(SubSeq(words[hit], 2, Len(words[hit]) - 1)))
        Words(words) == Option(words, FirstBracketed(words))
        Scan(s) == IF ~s.ok THEN s ELSE Words(StrSplitWords(s.val.s))
    IN Scan(FileStrPlug_Read(p, sys))

\* ThpOptionPlug.Write
ThpOptionPlug_Write(p, value, sys) == FileStrPlug_Write(p, value, sys)

\* FileIntPlug.Read
FileIntPlug_Read(p, sys) ==
    LET Parsed(s, n) ==
            IF ~n.ok
            THEN Raised("invalid literal for int() with base 10: '" \o s.val.s \o "'")
            ELSE Returned(PyInt(n.n))
        Parse(s) == IF ~s.ok THEN s ELSE Parsed(s, ParseInt(s.val.s))
    IN Parse(FileStrPlug_Read(p, sys))

\* FileIntPlug.Write
FileIntPlug_Write(p, value, sys) == FileStrPlug_Write(p, PyStr(PyFormat(value)), sys)

\* FileBoolPlug.Read
FileBoolPlug_Read(p, sys) ==
    LET Bool(lower) ==
            IF lower = "true" THEN Returned(PyBool(TRUE))
            ELSE IF lower = "false" THEN Returned(PyBool(FALSE))
            ELSE Raised("invalid/ambiguous bool value read")
        Parse(s) == IF ~s.ok THEN s ELSE Bool(StrLower(s.val.s))
    IN Parse(FileStrPlug_Read(p, sys))

\* FileBoolPlug.Write
FileBoolPlug_Write(p, value, sys) ==
    FileStrPlug_Write(p, PyStr(IF Truthy(value) THEN "true" ELSE "false"), sys)

\* KvnPlug.Read
KvnPlug_Read(p, sys) ==
    LET Ret(kvn) ==
            IF ~kvn.ok THEN Raised("invalid kernel version: '" \o sys.release \o "'")
            ELSE Returned(PyDict(<<Item("w", PyInt(kvn.w)), Item("x", PyInt(kvn.x)),
                                   Item("y", PyInt(kvn.y)), Item("z", PyInt(kvn.z)),
                                   Item("suffix", PyStr(kvn.suffix))>>))
    IN Ret(GetKernelVersion(sys))

\* KvnPlug.Write
KvnPlug_Write(p, value, sys) ==
    [ok |-> FALSE, files |-> sys.files, exc |-> "cannot write kernel version number"]

\* p.Read() by the class of p
Plug_Read(p, sys) ==
    CASE p.kind = "FileStrPlug" -> FileStrPlug_Read(p, sys)
      [] p.kind = "ThpOptionPlug" -> ThpOptionPlug_Read(p, sys)
      [] p.kind = "FileIntPlug" -> FileIntPlug_Read(p, sys)
      [] p.kind = "FileBoolPlug" -> FileBoolPlug_Read(p, sys)
      [] p.kind = "KvnPlug" -> KvnPlug_Read(p, sys)

\* p.Write(value) by the class of p
Plug_Write(p, value, sys) ==
    CASE p.kind = "FileStrPlug" -> FileStrPlug_Write(p, value, sys)
      [] p.kind = "ThpOptionPlug" -> ThpOptionPlug_Write(p, value, sys)
      [] p.kind = "FileIntPlug" -> FileIntPlug_Write(p, value, sys)
      [] p.kind = "FileBoolPlug" -> FileBoolPlug_Write(p, value, sys)
      [] p.kind = "KvnPlug" -> KvnPlug_Write(p, value, sys)

-----------------------------------------------------------------------------
(* MetaTreePlugReaderVisitor.  rd = [rawdata, calls, raised, exc]: the     *)
(* dict the visitor fills, the adapter calls so far, and the exception     *)
(* that ended the traversal, if one did.                                   *)

AdapterCall(call, id, value, exc) ==
    [call |-> call, node |-> id, value |-> value, exc |-> exc]

\* self.__rawdata[node.Name()] = p.Read()
PlugReader_ReadInto(mm, id, sys, rd) ==
    LET Assign(r) ==
            IF r.ok
            THEN [rd EXCEPT !.rawdata = SetItem(rd.rawdata, mm.nodes[id].name, r.val),
                            !.calls = Append(@, AdapterCall("Read", id, r.val, r.exc))]
            ELSE [rd EXCEPT !.calls = Append(@, AdapterCall("Read", id, r.val, r.exc)),
                            !.raised = TRUE, !.exc = r.exc]
    IN Assign(Plug_Read(mm.nodes[id].plug, sys))

RECURSIVE PlugReader_AcceptVisitor(_, _, _, _)

\* a faulty child loop: the children after one whose Read raised are read too
RECURSIVE PlugReader_ChildLoop_KeepsGoing(_, _, _, _, _)
PlugReader_ChildLoop_KeepsGoing(mm, id, i, sys, rd) ==
    IF i > Len(mm.nodes[id].children) THEN rd
    ELSE PlugReader_ChildLoop_KeepsGoing(mm, id, i + 1, sys,
            PlugReader_AcceptVisitor(mm, mm.nodes[id].children[i], sys, rd))

\* for ch in node.Children(): node[ch].AcceptVisitor(MetaTreePlugReaderVisitor(x))
RECURSIVE PlugReader_ChildLoop(_, _, _, _, _)
PlugReader_ChildLoop(mm, id, i, sys, rd) ==
    IF rd.raised \/ i > Len(mm.nodes[id].children) THEN rd
    ELSE PlugReader_ChildLoop(mm, id, i + 1, sys,
            PlugReader_AcceptVisitor(mm, mm.nodes[id].children[i], sys, rd))

PlugReader_VisitFixedDict(mm, id, sys, rd) ==
    LET Assign(x) ==
            [x EXCEPT !.rawdata = SetItem(rd.rawdata, mm.nodes[id].name, x.rawdata)]
    IN IF mm.nodes[id].plug # NoPlug
       THEN PlugReader_ReadInto(mm, id, sys, rd)
       ELSE Assign(PlugReader_ChildLoop(mm, id, 1, sys,
                                        [rd EXCEPT !.rawdata = PyDict(<<>>)]))

PlugReader_VisitScalar(mm, id, sys, rd) ==
    IF mm.nodes[id].plug = NoPlug
    THEN [rd EXCEPT !.raised = TRUE, !.exc = "AssertionError"]
    ELSE PlugReader_ReadInto(mm, id, sys, rd)

PlugReader_AcceptVisitor(mm, id, sys, rd) ==
    IF mm.nodes[id].kind = "FixedDict"
    THEN PlugReader_VisitFixedDict(mm, id, sys, rd)
    ELSE PlugReader_VisitScalar(mm, id, sys, rd)

\* ReadSystemConfig: [raised, exc, model, calls]
ReadSystemConfig(mm, sys) ==
    LET Checked(rd, res) ==
            IF res.success
            THEN [raised |-> FALSE, exc |-> "", model |-> res.model, calls |-> rd.calls]
            ELSE [raised |-> TRUE,
                  exc |-> "errors when typechecking read system rawdata:\n "
                          \o Join(res.errors, ","),
                  model |-> None, calls |-> rd.calls]
        Visited(rd) ==
            IF rd.raised
            THEN [raised |-> TRUE, exc |-> rd.exc, model |-> None, calls |-> rd.calls]
            ELSE IF ~HasKey(rd.rawdata, "top")
            THEN [raised |-> TRUE, exc |-> "KeyError: 'top'", model |-> None,
                  calls |-> rd.calls]
            ELSE Checked(rd, CreateTypecheckedModel(mm, GetItem(rd.rawdata, "top")))
    IN Visited(PlugReader_AcceptVisitor(mm, mm.root, sys,
                   [rawdata |-> PyDict(<<>>), calls |-> <<>>,
                    raised |-> FALSE, exc |-> ""]))

-----------------------------------------------------------------------------
(* MetaTreePlugWriterVisitor.  st = [sys, errlist, calls, raised, exc]:    *)
(* the live system as written so far, the shared error list, the adapter   *)
(* calls so far, and the exception that ended the traversal, if one did.   *)

\* a faulty __TryWriteIfNeeded: the exception of a failed Write is not caught
PlugWriter_TryWriteIfNeeded_Uncaught(mm, id, p, diffonly_, rawdata_, st) ==
    LET Written(s, w) ==
            [st |-> [s EXCEPT !.calls = Append(@, AdapterCall("Write", id, rawdata_, w.exc)),
                              !.sys.files = w.files,
                              !.raised = ~w.ok, !.exc = w.exc],
             err |-> None]
        Write(s) == Written(s, Plug_Write(p, rawdata_, s.sys))
        Compared(s, val) ==
            IF ~val.ok
            THEN [st |-> [s EXCEPT !.raised = TRUE, !.exc = val.exc], err |-> None]
            ELSE IF PyEq(val.val, rawdata_)
            THEN [st |-> s, err |-> None]
            ELSE IF ~mm.nodes[id].applyable
            THEN [st |-> s,
                  err |-> PyStr(PathStr(mm, id)
                            \o ": difference in non-applyable value (desired = "
                            \o PyFormat(rawdata_) \o " actual = "
                            \o PyFormat(val.val) \o ")")]
            ELSE Write(s)
        Read(val) ==
            Compared([st EXCEPT !.calls = Append(@, AdapterCall("Read", id, val.val, val.exc))],
                     val)
    IN IF diffonly_ \/ ~mm.nodes[id].applyable
       THEN Read(Plug_Read(p, st.sys))
       ELSE Write(st)

\* a faulty __TryWriteIfNeeded: the exception of a failed Read is caught and
\* returned as an error string, like that of a failed Write
PlugWriter_TryWriteIfNeeded_ReadCaught(mm, id, p, diffonly_, rawdata_, st) ==
    LET Written(s, w) ==
            [st |-> [s EXCEPT !.calls = Append(@, AdapterCall("Write", id, rawdata_, w.exc)),
                              !.sys.files = w.files],
             err |-> IF w.ok THEN None
                     ELSE PyStr("When applying " \o PathStr(mm, id) \o ": " \o w.exc)]
        Write(s) == Written(s, Plug_Write(p, rawdata_, s.sys))
        Compared(s, val) ==
            IF ~val.ok
            THEN [st |-> s,
                  err |-> PyStr("When applying " \o PathStr(mm, id) \o ": " \o val.exc)]
            ELSE IF PyEq(val.val, rawdata_)
            THEN [st |-> s, err |-> None]
            ELSE IF ~mm.nodes[id].applyable
            THEN [st |-> s,
                  err |-> PyStr(PathStr(mm, id)
                            \o ": difference in non-applyable value (desired = "
                            \o PyFormat(rawdata_) \o " actual = "
                            \o PyFormat(val.val) \o ")")]
            ELSE Write(s)
        Read(val) ==
            Compared([st EXCEPT !.calls = Append(@, AdapterCall("Read", id, val.val, val.exc))],
                     val)
    IN IF diffonly_ \/ ~mm.nodes[id].applyable
       THEN Read(Plug_Read(p, st.sys))
       ELSE Write(st)

\* a faulty __TryWriteIfNeeded: in diff-only mode an applyable node is written
\* whatever was read
PlugWriter_TryWriteIfNeeded_AlwaysWrites(mm, id, p, diffonly_, rawdata_, st) ==
    LET Written(s, w) ==
            [st |-> [s EXCEPT !.calls = Append(@, AdapterCall("Write", id, rawdata_, w.exc)),
                              !.sys.files = w.files],
             err |-> IF w.ok THEN None
                     ELSE PyStr("When applying " \o PathStr(mm, id) \o ": " \o w.exc)]
        Write(s) == Written(s, Plug_Write(p, rawdata_, s.sys))
        Compared(s, val) ==
            IF ~val.ok
            THEN [st |-> [s EXCEPT !.raised = TRUE, !.exc = val.exc], err |-> None]
            ELSE IF ~mm.nodes[id].applyable
            THEN IF PyEq(val.val, rawdata_)
                 THEN [st |-> s, err |-> None]
                 ELSE [st |-> s,
                       err |-> PyStr(PathStr(mm, id)
                                 \o ": difference in non-applyable value (desired = "
                                 \o PyFormat(rawdata_) \o " actual = "
                                 \o PyFormat(val.val) \o ")")]
            ELSE Write(s)
        Read(val) ==
            Compared([st EXCEPT !.calls = Append(@, AdapterCall("Read", id, val.val, val.exc))],
                     val)
    IN IF diffonly_ \/ ~mm.nodes[id].applyable
       THEN Read(Plug_Read(p, st.sys))
       ELSE Write(st)

\* a faulty __TryWriteIfNeeded: a non-applyable node whose value differs is
\* written like an applyable one
PlugWriter_TryWriteIfNeeded_WritesReadOnly(mm, id, p, diffonly_, rawdata_, st) ==
    LET Written(s, w) ==
            [st |-> [s EXCEPT !.calls = Append(@, AdapterCall("Write", id, rawdata_, w.exc)),
                              !.sys.files = w.files],
             err |-> IF w.ok THEN None
                     ELSE PyStr("When applying " \o PathStr(mm, id) \o ": " \o w.exc)]
        Write(s) == Written(s, Plug_Write(p, rawdata_, s.sys))
        Compared(s, val) ==
            IF ~val.ok
            THEN [st |-> [s EXCEPT !.raised = TRUE, !.exc = val.exc], err |-> None]
            ELSE IF PyEq(val.val, rawdata_)
            THEN [st |-> s, err |-> None]
            ELSE Write(s)
        Read(val) ==
            Compared([st EXCEPT !.calls = Append(@, AdapterCall("Read", id, val.val, val.exc))],
                     val)
    IN IF diffonly_ \/ ~mm.nodes[id].applyable
       THEN Read(Plug_Read(p, st.sys))
       ELSE Write(st)

\* __TryWriteIfNeeded: [st, err], err being None or the error string
PlugWriter_TryWriteIfNeeded(mm, id, p, diffonly_, rawdata_, st) ==
    LET Written(s, w) ==
            [st |-> [s EXCEPT !.calls = Append(@, AdapterCall("Write", id, rawdata_, w.exc)),
                              !.sys.files = w.files],
             err |-> IF w.ok THEN None
                     ELSE PyStr("When applying " \o PathStr(mm, id) \o ": " \o w.exc)]
        Write(s) == Written(s, Plug_Write(p, rawdata_, s.sys))
        Compared(s, val) ==
            IF ~val.ok
            THEN [st |-> [s EXCEPT !.raised = TRUE, !.exc = val.exc], err |-> None]
            ELSE IF PyEq(val.val, rawdata_)
            THEN [st |-> s, err |-> None]
            ELSE IF ~mm.nodes[id].applyable
            THEN [st |-> s,
                  err |-> PyStr(PathStr(mm, id)
                            \o ": difference in non-applyable value (desired = "
                            \o PyFormat(rawdata_) \o " actual = "
                            \o PyFormat(val.val) \o ")")]
            ELSE Write(s)
        Read(val) ==
            Compared([st EXCEPT !.calls = Append(@, AdapterCall("Read", id, val.val, val.exc))],
                     val)
    IN IF diffonly_ \/ ~mm.nodes[id].applyable
       THEN Read(Plug_Read(p, st.sys))
       ELSE Write(st)

RECURSIVE PlugWriter_AcceptVisitor(_, _, _, _, _)

\* a faulty child loop: the children are taken in the order of the keys of
\* the raw value
RECURSIVE PlugWriter_ChildLoop_KeyOrder(_, _, _, _, _, _)
PlugWriter_ChildLoop_KeyOrder(mm, id, i, diffonly_, rawdata_, st) ==
    IF st.raised \/ rawdata_.ty # "dict" \/ i > Len(Keys(rawdata_)) THEN st
    ELSE LET ch == Keys(rawdata_)[i]
         IN PlugWriter_ChildLoop_KeyOrder(mm, id, i + 1, diffonly_, rawdata_,
                PlugWriter_AcceptVisitor(mm, Child(mm, id, ch), diffonly_,
                                         GetItem(rawdata_, ch), st))

\* for ch in node.Children():
\*     node[ch].AcceptVisitor(MetaTreePlugWriterVisitor(diffonly, rawdata[ch], errlist))
RECURSIVE PlugWriter_ChildLoop(_, _, _, _, _, _)
PlugWriter_ChildLoop(mm, id, i, diffonly_, rawdata_, st) ==
    IF st.raised \/ i > Len(mm.nodes[id].children) THEN st
    ELSE LET ch == ChildrenNames(mm, id)[i]
         IN IF rawdata_.ty # "dict" \/ ~HasKey(rawdata_, ch)
            THEN [st EXCEPT !.raised = TRUE, !.exc = "KeyError: '" \o ch \o "'"]
            ELSE PlugWriter_ChildLoop(mm, id, i + 1, diffonly_, rawdata_,
                    PlugWriter_AcceptVisitor(mm, Child(mm, id, ch), diffonly_,
                                             GetItem(rawdata_, ch), st))

PlugWriter_VisitFixedDict(mm, id, diffonly_, rawdata_, st) ==
    LET Collect(t) ==
            IF t.err # None THEN [t.st EXCEPT !.errlist = Append(@, t.err.s)] ELSE t.st
    IN IF mm.nodes[id].plug # NoPlug
       THEN Collect(PlugWriter_TryWriteIfNeeded(mm, id, mm.nodes[id].plug,
                                                diffonly_, rawdata_, st))
       ELSE IF ~mm.nodes[id].applyable
       THEN [st EXCEPT !.raised = TRUE,
                       !.exc = "'NotImplementedType' object is not callable"]
       ELSE PlugWriter_ChildLoop(mm, id, 1, diffonly_, rawdata_, st)

\* the string __TryWriteIfNeeded returns is not used
PlugWriter_VisitScalar(mm, id, diffonly_, rawdata_, st) ==
    IF mm.nodes[id].plug = NoPlug
    THEN [st EXCEPT !.raised = TRUE, !.exc = "AssertionError"]
    ELSE PlugWriter_TryWriteIfNeeded(mm, id, mm.nodes[id].plug,
                                     diffonly_, rawdata_, st).st

PlugWriter_AcceptVisitor(mm, id, diffonly_, rawdata_, st) ==
    IF mm.nodes[id].kind = "FixedDict"
    THEN PlugWriter_VisitFixedDict(mm, id, diffonly_, rawdata_, st)
    ELSE PlugWriter_VisitScalar(mm, id, diffonly_, rawdata_, st)

\* ApplySystemConfig: the final st; st.errlist is returned unless st.raised
ApplySystemConfig(model, diffonly_, sys) ==
    PlugWriter_AcceptVisitor(model.metamodel, model.metamodel.root, diffonly_,
        model.rawdata,
        [sys |-> sys, errlist |-> <<>>, calls |-> <<>>, raised |-> FALSE, exc |-> ""])

-----------------------------------------------------------------------------
(* MetaTreeDiffVisitor *)

RECURSIVE DiffVisitor_AcceptVisitor(_, _, _, _, _, _, _)

\* for k in node.Children(): node[k].AcceptVisitor(MetaTreeDiffVisitor(left[k], right[k], ..))
RECURSIVE DiffVisitor_ChildLoop(_, _, _, _, _, _, _, _)
DiffVisitor_ChildLoop(mm, id, i, l, r, leftname, rightname, difflist) ==
    IF i > Len(mm.nodes[id].children) THEN difflist
    ELSE LET k == ChildrenNames(mm, id)[i]
         IN DiffVisitor_ChildLoop(mm, id, i + 1, l, r, leftname, rightname,
                DiffVisitor_AcceptVisitor(mm, Child(mm, id, k), GetItem(l, k),
                                          GetItem(r, k), leftname, rightname, difflist))

DiffVisitor_VisitFixedDict(mm, id, l, r, leftname, rightname, difflist) ==
    DiffVisitor_ChildLoop(mm, id, 1, l, r, leftname, rightname, difflist)

\* a faulty VisitScalar: two values of one type are taken for equal
DiffVisitor_VisitScalar_TypeOnly(mm, id, l, r, leftname, rightname, difflist) ==
    IF l.ty # r.ty
    THEN Append(difflist, mm.nodes[id].name \o ": " \o leftname \o " = " \o PyFormat(l)
                          \o " | " \o rightname \o " = " \o PyFormat(r))
    ELSE difflist

DiffVisitor_VisitScalar(mm, id, l, r, leftname, rightname, difflist) ==
    IF ~PyEq(l, r)
    THEN Append(difflist, mm.nodes[id].name \o ": " \o leftname \o " = " \o PyFormat(l)
                          \o " | " \o rightname \o " = " \o PyFormat(r))
    ELSE difflist

DiffVisitor_AcceptVisitor(mm, id, l, r, leftname, rightname, difflist) ==
    IF mm.nodes[id].kind = "FixedDict"
    THEN DiffVisitor_VisitFixedDict(mm, id, l, r, leftname, rightname, difflist)
    ELSE DiffVisitor_VisitScalar(mm, id, l, r, leftname, rightname, difflist)

\* DiffTypecheckedModels
DiffTypecheckedModels(left_, right_, leftname, rightname) ==
    DiffVisitor_AcceptVisitor(left_.metamodel, left_.metamodel.root,
        left_.rawdata, right_.rawdata, leftname, rightname, <<>>)

-----------------------------------------------------------------------------
(* MetaTreePrinter.  The text written to the output stream is a string;    *)
(* the box-drawing characters of the source are written here with one      *)
(* ASCII character each: U+2514 as "L", U+251C as "+", U+2502 as "|" and   *)
(* U+2500 as "-".                                                          *)

\* s.splitlines(keepends=True), for text whose only line break is "\n": the
\* pieces that end with a "\n" and, if the text does not end with one, the
\* piece after the last
SplitLinesKeepEnds(s) ==
    LET ends == {i \in 1..Len(s) : CharAt(s, i) = "\n" \/ i = Len(s)}
        End(k) == CHOOSE e \in ends : Cardinality({x \in ends : x <= e}) = k
        Start(k) == IF k = 1 THEN 1 ELSE End(k - 1) + 1
    IN [k \in 1..Cardinality(ends) |-> SubSeq(s, Start(k), End(k))]

\* a faulty PrefixLines: only the first line gets the prefix
PrefixLines_FirstLineOnly(s, prefix) == IF s = "" THEN "" ELSE prefix \o s

\* PrefixLines
PrefixLines(s, prefix) ==
    LET lines == SplitLinesKeepEnds(s)
    IN Join([i \in DOMAIN lines |-> prefix \o lines[i]], "")

\* MetaTreeNode.HelpString and its override in MetaTreeScalar
HelpString(mm, id) ==
    LET suffix == IF mm.nodes[id].applyable THEN "[Ap]" ELSE "[RO]"
        s == mm.nodes[id].helpstring \o " " \o suffix
    IN IF mm.nodes[id].kind = "Scalar"
       THEN s \o " [Type = " \o mm.nodes[id].ty \o "]"
       ELSE s

\* MetaTreePrinter.PrintCommon: the line printed, with the "\n" print adds
Printer_PrintCommon(mm, id, is_top, is_last_sibling) ==
    LET line == mm.nodes[id].name \o ": " \o HelpString(mm, id) \o "\n"
    IN IF is_top THEN line
       ELSE IF is_last_sibling THEN " L-- " \o line
       ELSE " +-- " \o line

RECURSIVE Printer_AcceptVisitor(_, _, _, _)

\* for c in children_list: print(PrefixLines(<what node[c] prints>, prefix), end="")
RECURSIVE Printer_ChildLoop(_, _, _, _)
Printer_ChildLoop(mm, id, i, prefix) ==
    LET children_list == ChildrenNames(mm, id)
    IN IF i > Len(children_list) THEN ""
       ELSE PrefixLines(Printer_AcceptVisitor(mm, Child(mm, id, children_list[i]), FALSE,
                            children_list[i] = children_list[Len(children_list)]),
                        prefix)
            \o Printer_ChildLoop(mm, id, i + 1, prefix)

Printer_VisitFixedDict(mm, id, is_top, is_last_sibling) ==
    LET prefix == IF is_top THEN ""
                  ELSE IF is_last_sibling THEN "    "
                  ELSE " |  "
    IN Printer_PrintCommon(mm, id, is_top, is_last_sibling)
          \o Printer_ChildLoop(mm, id, 1, prefix)

Printer_VisitScalar(mm, id, is_top, is_last_sibling) ==
    Printer_PrintCommon(mm, id, is_top, is_last_sibling)

Printer_AcceptVisitor(mm, id, is_top, is_last_sibling) ==
    IF mm.nodes[id].kind = "FixedDict"
    THEN Printer_VisitFixedDict(mm, id, is_top, is_last_sibling)
    ELSE Printer_VisitScalar(mm, id, is_top, is_last_sibling)

\* MetaModel.PrintTree: what is written to output
PrintTree(mm) == Printer_AcceptVisitor(mm, mm.root, TRUE, TRUE)

-----------------------------------------------------------------------------
(* The metamodel and the data of src/tests/tests.py *)

TEST_METAMODEL ==
    LET n1 == MetaTreeFixedDict(<<>>, "top", "i am top", TRUE, 0, NoPlug)
        n2 == MetaTreeScalar(n1, "bar", "i am bar", TRUE, "int", 1, NoPlug)
        n3 == MetaTreeFixedDict(n2, "baz", "i am baz", TRUE, 1, NoPlug)
        n4 == MetaTreeScalar(n3, "name", "person's name", TRUE, "str", 3, NoPlug)
        n5 == MetaTreeScalar(n4, "age", "person's age", FALSE, "int", 3, NoPlug)
        n6 == MetaTreeFixedDict(n5, "teams", "sports teams", TRUE, 1, NoPlug)
        n7 == MetaTreeScalar(n6, "soccer", "soccer", TRUE, "str", 6, NoPlug)
        n8 == MetaTreeScalar(n7, "nfl", "american football", TRUE, "str", 6, NoPlug)
    IN MetaModel(n8, 1)

GOOD_RAW_DATA ==
    PyDict(<<Item("bar", PyInt(5)),
             Item("baz", PyDict(<<Item("name", PyStr("john")),
                                  Item("age", PyInt(37))>>)),
             Item("teams", PyDict(<<Item("soccer", PyStr("man utd")),
                                    Item("nfl", PyStr("tigers"))>>))>>)

BAD_RAW_DATA ==
    PyDict(<<Item("bar", PyBool(FALSE)),
             Item("baz", PyDict(<<Item("age", PyStr("100")),
                                  Item("hobby", PyList(2))>>)),
             Item("teams", PyInt(619)),
             Item("etc", PyDict(<<Item("phone", PyInt(123456709))>>))>>)

-----------------------------------------------------------------------------
(* Metamodels with plugs: cuts of the tree GenerateMetamodel builds, and   *)
(* the node shapes the constructors allow beside it.                       *)

\* MetaTreeKvn.__init__: the nodes with the kvn group of id Len(nodes) + 1
\* added; the group's applyable flag is False in the source
MetaTreeKvnNodes(nodes, name, helpstring, applyable, parent) ==
    LET id == Len(nodes) + 1
        n0 == MetaTreeFixedDict(nodes, name, helpstring, applyable, parent, KvnPlug)
        n1 == MetaTreeScalar(n0, "w", "w component of version name", FALSE, "int", id, NoPlug)
        n2 == MetaTreeScalar(n1, "x", "x component of version name", FALSE, "int", id, NoPlug)
        n3 == MetaTreeScalar(n2, "y", "y component of version name", FALSE, "int", id, NoPlug)
        n4 == MetaTreeScalar(n3, "z", "z component of version name", FALSE, "int", id, NoPlug)
    IN MetaTreeScalar(n4, "suffix", "suffix component of version name", FALSE, "str",
                      id, NoPlug)

MetaTreeKvn(nodes, name, helpstring, parent) ==
    MetaTreeKvnNodes(nodes, name, helpstring, FALSE, parent)

MM_FS_PATH == "/sys/kernel/mm"
MM_KSM_PATH == MM_FS_PATH \o "/ksm"
MM_NUMA_PATH == MM_FS_PATH \o "/numa"
MM_SWAP_PATH == MM_FS_PATH \o "/swap"
MM_THP_PATH == MM_FS_PATH \o "/transparent_hugepage"

\* GenerateMetamodel, cut to kvn, numa and three scalars of transparent_hugepage
SYSTEM_METAMODEL ==
    LET n1 == MetaTreeFixedDict(<<>>, "top", "top node", TRUE, 0, NoPlug)
        n2 == MetaTreeKvn(n1, "kvn", "kernel version number", 1)
        n8 == MetaTreeFixedDict(n2, "numa", "non-uniform memory access", TRUE, 1, NoPlug)
        n9 == MetaTreeFixedDict(n8, "transparent_hugepage", "transparent hugepages",
                                TRUE, 1, NoPlug)
        n10 == MetaTreeScalar(n9, "demotion_enabled", "", TRUE, "bool", 8,
                              FileBoolPlug(MM_NUMA_PATH \o "/demotion_enabled"))
        n11 == MetaTreeScalar(n10, "enabled", "", TRUE, "str", 9,
                              ThpOptionPlug(MM_THP_PATH \o "/enabled"))
        n12 == MetaTreeScalar(n11, "hpage_pmd_size", "", FALSE, "int", 9,
                              FileIntPlug(MM_THP_PATH \o "/hpage_pmd_size"))
        n13 == MetaTreeScalar(n12, "use_zero_page", "", TRUE, "int", 9,
                              FileIntPlug(MM_THP_PATH \o "/use_zero_page"))
    IN MetaModel(n13, 1)

\* an applyable group with a plug of its own (written as one value), then a
\* group of one scalar
OPAQUE_METAMODEL ==
    LET n1 == MetaTreeFixedDict(<<>>, "top", "top node", TRUE, 0, NoPlug)
        n2 == MetaTreeKvnNodes(n1, "kvn", "kernel version number", TRUE, 1)
        n8 == MetaTreeFixedDict(n2, "swap", "", TRUE, 1, NoPlug)
        n9 == MetaTreeScalar(n8, "vma_ra_enabled", "", TRUE, "bool", 8,
                             FileBoolPlug(MM_SWAP_PATH \o "/vma_ra_enabled"))
    IN MetaModel(n9, 1)

\* a group that is not applyable and has no plug, after an applyable one
READONLY_GROUP_METAMODEL ==
    LET n1 == MetaTreeFixedDict(<<>>, "top", "top node", TRUE, 0, NoPlug)
        n2 == MetaTreeFixedDict(n1, "swap", "", TRUE, 1, NoPlug)
        n3 == MetaTreeScalar(n2, "vma_ra_enabled", "", TRUE, "bool", 2,
                             FileBoolPlug(MM_SWAP_PATH \o "/vma_ra_enabled"))
        n4 == MetaTreeFixedDict(n3, "ksm", "kernel samepage merging", FALSE, 1, NoPlug)
        n5 == MetaTreeScalar(n4, "run", "", TRUE, "int", 4,
                             FileIntPlug(MM_KSM_PATH \o "/run"))
    IN MetaModel(n5, 1)

SystemMetamodels == {SYSTEM_METAMODEL, OPAQUE_METAMODEL, READONLY_GROUP_METAMODEL}

-----------------------------------------------------------------------------
(* Bounds and inputs *)

\* raw values are at most this many edits away from a conforming one
MaxEdits == 1
\* the first of the two values handed to DiffTypecheckedModels: edits of it
MaxDiffEdits == 1
\* deviations of the live system from the baseline: a file with another
\* text, a file that cannot be written, another kernel release
MaxDeviations == 1
\* operations performed in one run on a live system
MaxOps == 2

ExtraKey == "etc"

RemoveAt(seq, i) == SubSeq(seq, 1, i - 1) \o SubSeq(seq, i + 1, Len(seq))
SwapAt(seq, i) == [seq EXCEPT ![i] = seq[i + 1], ![i + 1] = seq[i]]

\* the raw values one edit away from v: a key deleted, an unknown key added,
\* two neighbouring keys swapped, a dict replaced by an int, a scalar replaced
\* by another of its type or by a value of another type
RECURSIVE Edits(_)
Edits(v) ==
    CASE v.ty = "dict" ->
            LET n == Len(v.items)
            IN {PyDict(RemoveAt(v.items, i)) : i \in 1..n}
               \cup (IF HasKey(v, ExtraKey) THEN {}
                     ELSE {PyDict(Append(v.items, Item(ExtraKey, PyDict(<<>>))))})
               \cup {PyDict(SwapAt(v.items, i)) : i \in 1..(n - 1)}
               \cup {PyInt(619)}
               \cup UNION {{PyDict([v.items EXCEPT ![i].v = e]) :
                                e \in Edits(v.items[i].v)} : i \in 1..n}
      [] v.ty = "int" -> {PyInt(v.n + 1), PyBool(v.n # 0)}
      [] v.ty = "bool" -> {PyBool(v.n = 0), PyInt(v.n)}
      [] v.ty = "str" -> {PyStr(IF v.s = "always" THEN "never" ELSE "always"),
                          PyInt(100)}
      [] OTHER -> {}

RECURSIVE EditsUpTo(_, _)
EditsUpTo(v, k) ==
    IF k = 0 THEN {v}
    ELSE LET prev == EditsUpTo(v, k - 1)
         IN prev \cup UNION {Edits(e) : e \in prev}

\* the live system a metamodel is run on: its files, by the plugs of its nodes
PlugFiles(mm) ==
    {mm.nodes[id].plug.file : id \in {j \in DOMAIN mm.nodes : mm.nodes[j].plug.file # ""}}

PlugKindOf(mm, f) ==
    mm.nodes[CHOOSE id \in DOMAIN mm.nodes : mm.nodes[id].plug.file = f].plug.kind

BaselineText(kind) ==
    CASE kind = "FileBoolPlug" -> "true\n"
      [] kind = "ThpOptionPlug" -> "always [madvise] never\n"
      [] kind = "FileIntPlug" -> "1\n"
      [] OTHER -> "y\n"

OtherTexts(kind) ==
    CASE kind = "FileBoolPlug" -> {"False\n", "yes\n"}
      [] kind = "ThpOptionPlug" -> {"[always] madvise never\n", "madvise"}
      [] kind = "FileIntPlug" -> {"0\n", "\n"}
      [] OTHER -> {"n\n"}

BaselineRelease == "6.1.0-13-amd64"
OtherReleases == {"5.15.0-91-generic", "6.18.44-fc-v165"}

BaselineFiles(mm) == [f \in PlugFiles(mm) |-> BaselineText(PlugKindOf(mm, f))]

TextsOf(mm, f) == {BaselineText(PlugKindOf(mm, f))} \cup OtherTexts(PlugKindOf(mm, f))

System(fs, ro, rel) == [files |-> fs, readonly |-> ro, release |-> rel]

\* the live systems a metamodel can be run on
SystemsOf(mm) ==
    {System(fs, ro, rel) :
        fs \in {g \in [PlugFiles(mm) -> UNION {TextsOf(mm, f) : f \in PlugFiles(mm)}] :
                   \A f \in PlugFiles(mm) : g[f] \in TextsOf(mm, f)},
        ro \in SUBSET PlugFiles(mm),
        rel \in {BaselineRelease} \cup OtherReleases}

Deviations(mm, sys) ==
    Cardinality({f \in PlugFiles(mm) : sys.files[f] # BaselineFiles(mm)[f]})
    + Cardinality(sys.readonly)
    + (IF sys.release # BaselineRelease THEN 1 ELSE 0)

\* the live systems a metamodel is run on: at most MaxDeviations away from
\* the baseline
Systems ==
    [mm \in SystemMetamodels |->
        {sys \in SystemsOf(mm) : Deviations(mm, sys) <= MaxDeviations}]

\* what the reader makes of a live system: rd = [rawdata, calls, raised, exc]
ReaderOn(mm, sys) ==
    PlugReader_AcceptVisitor(mm, mm.root, sys,
        [rawdata |-> PyDict(<<>>), calls |-> <<>>, raised |-> FALSE, exc |-> ""])

\* the configuration the baseline system is in, as the reader reads it
BaselineConfig(mm) ==
    GetItem(ReaderOn(mm, System(BaselineFiles(mm), {}, BaselineRelease)).rawdata, "top")

\* the same configuration with two neighbouring keys of one map swapped
RECURSIVE Reorderings(_)
Reorderings(v) ==
    IF v.ty # "dict" THEN {}
    ELSE {PyDict(SwapAt(v.items, i)) : i \in 1..(Len(v.items) - 1)}
         \cup UNION {{PyDict([v.items EXCEPT ![i].v = e]) :
                         e \in Reorderings(v.items[i].v)} : i \in DOMAIN v.items}

\* the configuration files handed to `apply`: the configurations `obtain`
\* stores of the live systems, the baseline one with its keys in another
\* order, and one that does not conform
ConfigInputs ==
    [mm \in SystemMetamodels |->
        {GetItem(rd.rawdata, "top") :
            rd \in {r \in {ReaderOn(mm, sys) : sys \in Systems[mm]} : ~r.raised}}
        \cup Reorderings(BaselineConfig(mm))
        \cup {PyDict(Append(BaselineConfig(mm).items, Item(ExtraKey, PyDict(<<>>))))}]

\* v conforms to the node id of mm: every Group position holds a dict whose
\* key set is the set of the declared child names, every Scalar position a
\* value of exactly the declared type
RECURSIVE Conforms(_, _, _)
Conforms(mm, id, v) ==
    IF mm.nodes[id].kind = "Scalar" THEN v.ty = mm.nodes[id].ty
    ELSE /\ v.ty = "dict"
         /\ Range(Keys(v)) = Range(ChildrenNames(mm, id))
         /\ \A k \in Range(Keys(v)) : Conforms(mm, Child(mm, id, k), GetItem(v, k))

CheckMetamodels == {TEST_METAMODEL} \cup SystemMetamodels

\* a conforming raw value of each metamodel
ConformingValue ==
    [mm \in CheckMetamodels |->
        IF mm = TEST_METAMODEL THEN GOOD_RAW_DATA ELSE BaselineConfig(mm)]

\* the raw values handed to TypeCheck and CreateTypecheckedModel
RawInputs ==
    [mm \in CheckMetamodels |->
        EditsUpTo(ConformingValue[mm], MaxEdits)
        \cup (IF mm = TEST_METAMODEL THEN {BAD_RAW_DATA} ELSE {})]

\* the conforming raw values one edit away from v, and v
ConformingNear(mm, v) == {e \in EditsUpTo(v, 1) : Conforms(mm, mm.root, e)}

\* the raw values two models are made of for DiffTypecheckedModels: a
\* conforming value and one near it
DiffInputs ==
    [mm \in CheckMetamodels |->
        UNION {{<<a, b>> : b \in ConformingNear(mm, a)} :
            a \in {v \in EditsUpTo(ConformingValue[mm], MaxDiffEdits) :
                        Conforms(mm, mm.root, v)}}]

NoOp == [name |-> "init", arg |-> 0, model |-> None, diffonly |-> FALSE]
NoResult == [raised |-> FALSE, exc |-> "", success |-> FALSE, errors |-> <<>>,
             model |-> None]

-----------------------------------------------------------------------------
(* Spec: one metamodel, one live system; a configuration file is loaded,   *)
(* the system is read and models are applied to it.                        *)

Init ==
    /\ metamodel \in SystemMetamodels
    /\ \E sys \in Systems[metamodel] :
          /\ files = sys.files
          /\ readonly = sys.readonly
          /\ release = sys.release
    /\ rawdata = <<>>
    /\ left = None
    /\ right = None
    /\ op = NoOp
    /\ result = NoResult
    /\ calls = <<>>
    /\ nops = 0
    /\ output = ""

\* LoadAndCheckConfigFile: the file parses to v; exit(1) if it does not typecheck
LoadAndCheckConfigFile(v) ==
    LET Loaded(res) ==
            /\ result' = [raised |-> ~res.success,
                          exc |-> IF res.success THEN "" ELSE "exit(1)",
                          success |-> res.success, errors |-> res.errors,
                          model |-> res.model]
            /\ left' = res.model
    IN /\ nops < MaxOps
       /\ rawdata = <<>>
       /\ rawdata' = <<v>>
       /\ op' = [NoOp EXCEPT !.name = "LoadAndCheckConfigFile", !.arg = 1]
       /\ Loaded(CreateTypecheckedModel(metamodel, v))
       /\ calls' = <<>>
       /\ nops' = nops + 1
       /\ UNCHANGED <<metamodel, files, readonly, release, right, output>>

\* sysconfig = ReadSystemConfig(SystemMetamodel())
DoReadSystemConfig ==
    LET Read(r) ==
            /\ result' = [raised |-> r.raised, exc |-> r.exc, success |-> ~r.raised,
                          errors |-> <<>>, model |-> r.model]
            /\ right' = IF r.raised THEN right ELSE r.model
            /\ calls' = r.calls
    IN /\ nops < MaxOps
       /\ op' = [NoOp EXCEPT !.name = "ReadSystemConfig"]
       /\ Read(ReadSystemConfig(metamodel, System(files, readonly, release)))
       /\ nops' = nops + 1
       /\ UNCHANGED <<metamodel, files, readonly, release, rawdata, left, output>>

\* errlist = ApplySystemConfig(model, diffonly)
DoApplySystemConfig(model, diffonly_) ==
    LET Applied(st) ==
            /\ result' = [raised |-> st.raised, exc |-> st.exc, success |-> ~st.raised,
                          errors |-> IF st.raised THEN <<>> ELSE st.errlist,
                          model |-> None]
            /\ files' = st.sys.files
            /\ calls' = st.calls
    IN /\ nops < MaxOps
       /\ model # None
       /\ op' = [NoOp EXCEPT !.name = "ApplySystemConfig", !.model = model,
                             !.diffonly = diffonly_]
       /\ Applied(ApplySystemConfig(model, diffonly_, System(files, readonly, release)))
       /\ nops' = nops + 1
       /\ UNCHANGED <<metamodel, readonly, release, rawdata, left, right, output>>

\* difflist = DiffTypecheckedModels(left, right, "file", "system")
DoDiffTypecheckedModels ==
    /\ left # None
    /\ right # None
    /\ op' = [NoOp EXCEPT !.name = "DiffTypecheckedModels"]
    /\ result' = [NoResult EXCEPT !.success = TRUE,
                     !.errors = DiffTypecheckedModels(left, right, "file", "system")]
    /\ UNCHANGED <<metamodel, files, readonly, release, rawdata, left, right,
                   calls, nops, output>>

Next ==
    \/ \E v \in ConfigInputs[metamodel] : LoadAndCheckConfigFile(v)
    \/ DoReadSystemConfig
    \/ \E model \in {left, right}, d \in BOOLEAN : DoApplySystemConfig(model, d)
    \/ DoDiffTypecheckedModels

Spec == Init /\ [][Next]_vars

-----------------------------------------------------------------------------
(* SpecCheck: the caller holds one or two raw values, typechecks them,     *)
(* makes models of them and compares the two models.                       *)

InitCheck ==
    /\ metamodel \in CheckMetamodels
    /\ rawdata \in {<<v>> : v \in RawInputs[metamodel]} \cup DiffInputs[metamodel]
    /\ files = <<>>
    /\ readonly = {}
    /\ release = ""
    /\ left = None
    /\ right = None
    /\ op = NoOp
    /\ result = NoResult
    /\ calls = <<>>
    /\ nops = 0
    /\ output = ""

\* errlist = metamodel.TypeCheck(rawdata[i])
DoTypeCheck(i) ==
    /\ op' = [NoOp EXCEPT !.name = "TypeCheck", !.arg = i]
    /\ result' = [NoResult EXCEPT !.success = TRUE,
                                  !.errors = TypeCheck(metamodel, rawdata[i])]
    /\ UNCHANGED <<metamodel, files, readonly, release, rawdata, left, right,
                   calls, nops, output>>

\* result = metamodel.CreateTypecheckedModel(rawdata[i]); the caller keeps
\* result.model: of the first raw value in left, of the second in right
DoCreateTypecheckedModel(i) ==
    LET Created(res) ==
            /\ result' = [NoResult EXCEPT !.success = res.success,
                                          !.errors = res.errors, !.model = res.model]
            /\ left' = IF i = 1 THEN res.model ELSE left
            /\ right' = IF i = 2 THEN res.model ELSE right
    IN /\ op' = [NoOp EXCEPT !.name = "CreateTypecheckedModel", !.arg = i]
       /\ Created(CreateTypecheckedModel(metamodel, rawdata[i]))
       /\ UNCHANGED <<metamodel, files, readonly, release, rawdata, calls, nops, output>>

NextCheck ==
    \/ \E i \in DOMAIN rawdata : DoTypeCheck(i)
    \/ \E i \in DOMAIN rawdata : DoCreateTypecheckedModel(i)
    \/ DoDiffTypecheckedModels

SpecCheck == InitCheck /\ [][NextCheck]_vars

-----------------------------------------------------------------------------
(* SpecBuild: a schema is constructed node by node, the way                *)
(* GenerateMetamodel and the tests construct theirs (the root first, every *)
(* other node with parent=<a Group made before>), and is then printed.     *)

\* the most nodes a constructed schema has
MaxNodes == 5

\* the names the constructed nodes take, and the help text that goes with a
\* name (tests.py writes "i am top", "i am bar", ...)
NodeNames == {"numa", "swap"}
HelpFor(name) == "i am " \o name

\* the type a Scalar of that name is declared with
TypeFor(name) == IF name = "numa" THEN "int" ELSE "str"

\* the Groups constructed so far: what parent= can be given
Groups(nodes) == {id \in DOMAIN nodes : nodes[id].kind = "FixedDict"}
Parents(nodes) == IF nodes = <<>> THEN {0} ELSE Groups(nodes)

\* a faulty RegisterChild: the assertion is not made
RegisterChild_Assertion_Skipped(nodes, parent, name) == TRUE

\* assert(ch.Name() not in self.__children)
RegisterChild_Assertion(nodes, parent, name) ==
    \A i \in DOMAIN nodes[parent].children : nodes[nodes[parent].children[i]].name # name

InitBuild ==
    /\ metamodel = MetaModel(<<>>, 0)
    /\ files = <<>>
    /\ readonly = {}
    /\ release = ""
    /\ rawdata = <<>>
    /\ left = None
    /\ right = None
    /\ op = NoOp
    /\ result = NoResult
    /\ calls = <<>>
    /\ nops = 0
    /\ output = ""

\* a constructor call: the new node is registered with its parent, or the
\* assertion of RegisterChild ends the constructor and no node comes of it
Construct(kind, name, helpstring, applyable, ty, parent) ==
    /\ Len(metamodel.nodes) < MaxNodes
    /\ output = ""
    /\ op' = [name |-> kind, arg |-> parent, node |-> name]
    /\ IF parent = 0 \/ RegisterChild_Assertion(metamodel.nodes, parent, name)
       THEN /\ metamodel' = [metamodel EXCEPT !.nodes =
                               MetaTreeNode(@, kind, name, helpstring, applyable, ty,
                                            parent, NoPlug)]
            /\ result' = [NoResult EXCEPT !.success = TRUE]
       ELSE /\ metamodel' = metamodel
            /\ result' = [NoResult EXCEPT !.raised = TRUE, !.exc = "AssertionError"]
    /\ UNCHANGED <<files, readonly, release, rawdata, left, right, calls, nops, output>>

\* MetaTreeFixedDict(name, helpstring, applyable, parent=parent)
NewMetaTreeFixedDict(name, helpstring, applyable, parent) ==
    Construct("FixedDict", name, helpstring, applyable, "", parent)

\* MetaTreeScalar(name, helpstring, applyable, ty, parent=parent)
NewMetaTreeScalar(name, helpstring, applyable, ty, parent) ==
    Construct("Scalar", name, helpstring, applyable, ty, parent)

\* MetaModel(top).PrintTree(), top being the node constructed first
DoPrintTree ==
    /\ metamodel.nodes # <<>>
    /\ output = ""
    /\ op' = [name |-> "PrintTree", arg |-> 1, node |-> ""]
    /\ metamodel' = MetaModel(metamodel.nodes, 1)
    /\ output' = PrintTree(MetaModel(metamodel.nodes, 1))
    /\ result' = [NoResult EXCEPT !.success = TRUE]
    /\ UNCHANGED <<files, readonly, release, rawdata, left, right, calls, nops>>

NextBuild ==
    \/ \E name \in NodeNames, applyable \in BOOLEAN, parent \in Parents(metamodel.nodes) :
          NewMetaTreeFixedDict(name, HelpFor(name), applyable, parent)
    \/ \E name \in NodeNames, applyable \in BOOLEAN, parent \in Parents(metamodel.nodes) :
          NewMetaTreeScalar(name, HelpFor(name), applyable, TypeFor(name), parent)
    \/ DoPrintTree

SpecBuild == InitBuild /\ [][NextBuild]_vars

-----------------------------------------------------------------------------
(* SpecThp: one ThpOptionPlug on a backing file of any text, read and      *)
(* written.                                                                *)

\* the longest backing text
MaxTextLen == 6

\* the characters of a backing text
TextChars == {"[", "]", "a", " ", "\n"}

\* the texts of at most n characters
RECURSIVE TextsUpTo(_)
TextsUpTo(n) ==
    IF n = 0 THEN {""}
    ELSE LET Longer(shorter) == shorter \cup {t \o c : t \in shorter, c \in TextChars}
         IN Longer(TextsUpTo(n - 1))

\* the option file and its plug
THP_FILE == MM_THP_PATH \o "/enabled"
THP_PLUG == ThpOptionPlug(THP_FILE)

\* the values written
ThpValues == {"always", "[never]", "a a", ""}

InitThp ==
    /\ metamodel = MetaModel(<<>>, 0)
    /\ files \in {[f \in {THP_FILE} |-> t] : t \in TextsUpTo(MaxTextLen)}
    /\ readonly = {}
    /\ release = ""
    /\ rawdata = <<>>
    /\ left = None
    /\ right = None
    /\ op = NoOp
    /\ result = NoResult
    /\ calls = <<>>
    /\ nops = 0
    /\ output = ""

\* val = plug.Read()
DoThpRead ==
    LET Read(r) ==
            result' = [NoResult EXCEPT !.raised = ~r.ok, !.exc = r.exc,
                                       !.success = r.ok, !.model = r.val]
    IN /\ op' = [name |-> "ThpOptionPlug.Read", value |-> None]
       /\ Read(ThpOptionPlug_Read(THP_PLUG, System(files, readonly, release)))
       /\ UNCHANGED <<metamodel, files, readonly, release, rawdata, left, right,
                      calls, nops, output>>

\* plug.Write(value)
DoThpWrite(value) ==
    LET Written(w) ==
            /\ result' = [NoResult EXCEPT !.raised = ~w.ok, !.exc = w.exc,
                                          !.success = w.ok]
            /\ files' = w.files
    IN /\ op' = [name |-> "ThpOptionPlug.Write", value |-> value]
       /\ Written(ThpOptionPlug_Write(THP_PLUG, value, System(files, readonly, release)))
       /\ UNCHANGED <<metamodel, readonly, release, rawdata, left, right,
                      calls, nops, output>>

NextThp ==
    \/ DoThpRead
    \/ \E v \in ThpValues : DoThpWrite(PyStr(v))

SpecThp == InitThp /\ [][NextThp]_vars

-----------------------------------------------------------------------------
(* SpecGen: SystemMetamodel on a system of any kernel release.             *)

MM_LRU_GEN_PATH == MM_FS_PATH \o "/lru_gen"
MM_THP_KHPD_PATH == MM_THP_PATH \o "/khugepaged"

\* a run of MetaTreeScalar(name, "", applyable, ty, parent=parent, plug=...)
\* statements; decl = <<name, applyable, ty, plug>>
RECURSIVE MetaTreeScalars(_, _, _)
MetaTreeScalars(nodes, parent, decls) ==
    IF decls = <<>> THEN nodes
    ELSE MetaTreeScalars(
            MetaTreeScalar(nodes, decls[1][1], "", decls[1][2], decls[1][3], parent,
                           decls[1][4]),
            parent, Tail(decls))

\* GenerateMetamodel; the Groups get the ids 1 (top), 2 (kvn), 8 to 12
GenerateMetamodel(kvn) ==
    LET node_top == 1
        node_ksm == 8
        node_numa == 9
        node_swap == 10
        node_thp == 11
        node_khpd == 12
        n1 == MetaTreeFixedDict(<<>>, "top", "top node", TRUE, 0, NoPlug)
        n2 == MetaTreeKvn(n1, "kvn", "kernel version number", node_top)
        n8 == MetaTreeFixedDict(n2, "ksm", "kernel samepage merging", TRUE, node_top, NoPlug)
        n9 == MetaTreeFixedDict(n8, "numa", "non-uniform memory access", TRUE, node_top,
                                NoPlug)
        n10 == MetaTreeFixedDict(n9, "swap", "", TRUE, node_top, NoPlug)
        n11 == MetaTreeFixedDict(n10, "transparent_hugepage", "transparent hugepages",
                                 TRUE, node_top, NoPlug)
        n12 == MetaTreeFixedDict(n11, "khugepaged", "huge pages daemon", TRUE, node_thp,
                                 NoPlug)
        ksm == MetaTreeScalars(n12, node_ksm,
                 << <<"max_page_sharing", TRUE, "int",
                      FileIntPlug(MM_KSM_PATH \o "/max_page_sharing")>>,
                    <<"merge_across_nodes", TRUE, "int",
                      FileIntPlug(MM_KSM_PATH \o "/merge_across_nodes")>>,
                    <<"pages_to_scan", TRUE, "int",
                      FileIntPlug(MM_KSM_PATH \o "/pages_to_scan")>>,
                    <<"run", TRUE, "int", FileIntPlug(MM_KSM_PATH \o "/run")>>,
                    <<"sleep_millisecs", TRUE, "int",
                      FileIntPlug(MM_KSM_PATH \o "/sleep_millisecs")>>,
                    <<"stable_node_chains_prune_millisecs", TRUE, "int",
                      FileIntPlug(MM_KSM_PATH \o "/stable_node_chains_prune_millisecs")>>,
                    <<"use_zero_pages", TRUE, "int",
                      FileIntPlug(MM_KSM_PATH \o "/use_zero_pages")>> >>)
        lru_gen == IF kvn.w = 6 /\ kvn.x >= 1
                   THEN MetaTreeScalars(
                           MetaTreeFixedDict(ksm, "lru_gen", "", TRUE, node_top, NoPlug),
                           Len(ksm) + 1,
                           << <<"enabled", TRUE, "str",
                                FileStrPlug(MM_LRU_GEN_PATH \o "/enabled")>>,
                              <<"min_ttl_ms", TRUE, "int",
                                FileIntPlug(MM_LRU_GEN_PATH \o "/min_ttl_ms")>> >>)
                   ELSE ksm
        numa == MetaTreeScalars(lru_gen, node_numa,
                 << <<"demotion_enabled", TRUE, "bool",
                      FileBoolPlug(MM_NUMA_PATH \o "/demotion_enabled")>> >>)
        swap == MetaTreeScalars(numa, node_swap,
                 << <<"vma_ra_enabled", TRUE, "bool",
                      FileBoolPlug(MM_SWAP_PATH \o "/vma_ra_enabled")>> >>)
        thp == MetaTreeScalars(swap, node_thp,
                 << <<"defrag", TRUE, "str", ThpOptionPlug(MM_THP_PATH \o "/defrag")>>,
                    <<"enabled", TRUE, "str", ThpOptionPlug(MM_THP_PATH \o "/enabled")>>,
                    <<"hpage_pmd_size", FALSE, "int",
                      FileIntPlug(MM_THP_PATH \o "/hpage_pmd_size")>>,
                    <<"shmem_enabled", TRUE, "str",
                      ThpOptionPlug(MM_THP_PATH \o "/shmem_enabled")>>,
                    <<"use_zero_page", TRUE, "int",
                      FileIntPlug(MM_THP_PATH \o "/use_zero_page")>> >>)
        khpd == MetaTreeScalars(thp, node_khpd,
                 << <<"alloc_sleep_millisecs", TRUE, "int",
                      FileIntPlug(MM_THP_KHPD_PATH \o "/alloc_sleep_millisecs")>>,
                    <<"max_ptes_none", TRUE, "int",
                      FileIntPlug(MM_THP_KHPD_PATH \o "/max_ptes_none")>>,
                    <<"max_ptes_shared", TRUE, "int",
                      FileIntPlug(MM_THP_KHPD_PATH \o "/max_ptes_shared")>>,
                    <<"max_ptes_swap", TRUE, "int",
                      FileIntPlug(MM_THP_KHPD_PATH \o "/max_ptes_swap")>>,
                    <<"pages_to_scan", TRUE, "int",
                      FileIntPlug(MM_THP_KHPD_PATH \o "/pages_to_scan")>>,
                    <<"scan_sleep_millisecs", TRUE, "int",
                      FileIntPlug(MM_THP_KHPD_PATH \o "/scan_sleep_millisecs")>> >>)
    IN MetaModel(khpd, node_top)

\* SystemMetamodel: [raised, exc, metamodel]
SystemMetamodel(sys) ==
    LET Generated(kvn) ==
            IF kvn.ok
            THEN [raised |-> FALSE, exc |-> "", metamodel |-> GenerateMetamodel(kvn)]
            ELSE [raised |-> TRUE, exc |-> "ValueError or IndexError",
                  metamodel |-> MetaModel(<<>>, 0)]
    IN Generated(KernelVersionNumber(sys.release))

\* the largest w and x of the kernel releases
MaxMajor == 7
MaxMinor == 12

\* the release strings of the systems: w.x.0-13 with and without a suffix,
\* and one that is no w.x.y-z
Releases ==
    {ToString(w) \o "." \o ToString(x) \o ".0-13" \o suffix :
        w \in 0..MaxMajor, x \in 0..MaxMinor, suffix \in {"", "-amd64"}}
    \cup {"6.1.0"}

InitGen ==
    /\ metamodel = MetaModel(<<>>, 0)
    /\ files = <<>>
    /\ readonly = {}
    /\ release \in Releases
    /\ rawdata = <<>>
    /\ left = None
    /\ right = None
    /\ op = NoOp
    /\ result = NoResult
    /\ calls = <<>>
    /\ nops = 0
    /\ output = ""

\* metamodel = SystemMetamodel()
DoSystemMetamodel ==
    LET Made(r) ==
            /\ result' = [NoResult EXCEPT !.raised = r.raised, !.exc = r.exc,
                                          !.success = ~r.raised]
            /\ metamodel' = r.metamodel
    IN /\ op' = [NoOp EXCEPT !.name = "SystemMetamodel"]
       /\ Made(SystemMetamodel(System(files, readonly, release)))
       /\ UNCHANGED <<files, readonly, release, rawdata, left, right, calls, nops,
                      output>>

NextGen == DoSystemMetamodel

SpecGen == InitGen /\ [][NextGen]_vars

-----------------------------------------------------------------------------
(* Properties of the type check (SpecCheck) *)

RECURSIVE Flatten(_)
Flatten(seqs) == IF seqs = <<>> THEN <<>> ELSE Head(seqs) \o Flatten(Tail(seqs))

\* the positions of the walk of v along mm: a node with the value found at it
RECURSIVE Positions(_, _, _)
Positions(mm, id, v) ==
    {<<id, v>>} \cup
    IF mm.nodes[id].kind = "FixedDict" /\ v.ty = "dict"
    THEN UNION {Positions(mm, Child(mm, id, k), GetItem(v, k)) :
                    k \in Range(Keys(v)) \cap Range(ChildrenNames(mm, id))}
    ELSE {}

\* the Group positions that hold a map
GroupPositions(mm, v) ==
    {p \in Positions(mm, mm.root, v) :
        mm.nodes[p[1]].kind = "FixedDict" /\ p[2].ty = "dict"}

\* the raw value the last operation was given
Candidate == rawdata[op.arg]

\* C1: a raw value that conforms to the schema (every Group position holds a
\* map whose keys are exactly the declared child names, every Scalar
\* position a value of exactly the declared type) typechecks to the empty
\* list
C1_ConformingHasNoErrors ==
    (op.name = "TypeCheck" /\ Conforms(metamodel, metamodel.root, Candidate))
        => result.errors = <<>>

C1_Witness ==
    /\ op.name = "TypeCheck"
    /\ Conforms(metamodel, metamodel.root, Candidate)
    /\ Candidate # ConformingValue[metamodel]
    /\ result.errors = <<>>

\* the discrepancies of v against mm: a missing declared child or an
\* undeclared key of a map at a Group position, a value of the wrong type at
\* a Scalar or Group position
Discrepancies(mm, v) ==
    LET P == Positions(mm, mm.root, v)
        G == GroupPositions(mm, v)
    IN UNION {{[what |-> "missing", at |-> p[1], key |-> k, got |-> ""] :
                k \in Range(ChildrenNames(mm, p[1])) \ Range(Keys(p[2]))} : p \in G}
       \cup
       UNION {{[what |-> "unknown", at |-> p[1], key |-> k, got |-> ""] :
                k \in Range(Keys(p[2])) \ Range(ChildrenNames(mm, p[1]))} : p \in G}
       \cup
       {[what |-> "type", at |-> p[1], key |-> "", got |-> p[2].ty] :
            p \in {q \in P : IF mm.nodes[q[1]].kind = "FixedDict"
                             THEN q[2].ty # "dict"
                             ELSE q[2].ty # mm.nodes[q[1]].ty}}

\* the entry of a discrepancy: the dotted path of the Group being checked
\* (key errors) or of the mismatching node, then what is wrong there
DiscrepancyLine(mm, d) ==
    PathStr(mm, d.at) \o ": " \o
    CASE d.what = "missing" ->
            "missing \"" \o d.key \o "\" field [Type = "
            \o (IF mm.nodes[Child(mm, d.at, d.key)].kind = "FixedDict"
                THEN "FixedDict" ELSE mm.nodes[Child(mm, d.at, d.key)].ty) \o "]"
      [] d.what = "unknown" -> "\"" \o d.key \o "\" is not a valid key"
      [] OTHER ->
            "type mismatch (expected: "
            \o (IF mm.nodes[d.at].kind = "FixedDict" THEN "dict" ELSE mm.nodes[d.at].ty)
            \o " got: " \o d.got \o ")"

\* C2: a raw value with at least one missing declared key, undeclared key or
\* wrong-typed value typechecks to a non-empty list that holds exactly one
\* entry per discrepancy, each entry prefixed by the dotted path of the Group
\* being checked or of the mismatching node
C2_OneEntryPerDiscrepancy ==
    LET D == Discrepancies(metamodel, Candidate)
    IN (op.name = "TypeCheck" /\ D # {}) =>
          /\ result.errors # <<>>
          /\ Len(result.errors) = Cardinality(D)
          /\ \A d \in D :
                Cardinality({i \in DOMAIN result.errors :
                    result.errors[i] = DiscrepancyLine(metamodel, d)}) = 1
          /\ \A i \in DOMAIN result.errors :
                \E d \in D : result.errors[i] = DiscrepancyLine(metamodel, d)

C2_Witness ==
    /\ op.name = "TypeCheck"
    /\ {d.what : d \in Discrepancies(metamodel, Candidate)} = {"missing", "unknown", "type"}
    /\ Len(result.errors) >= 3

\* the errors of the Group position p alone: the root's are the returned
\* list, a nested Group's are what the check of its value produces
GroupErrors(p) ==
    IF p[1] = metamodel.root THEN result.errors
    ELSE TypeChecker_AcceptVisitor(metamodel, p[1], p[2], <<>>)

\* the unknown-key errors of p, in candidate iteration order
UnknownErrors(p) ==
    LET Unknown(k) == k \notin Range(ChildrenNames(metamodel, p[1]))
        ks == SelectSeq(Keys(p[2]), Unknown)
    IN [i \in DOMAIN ks |->
            PathStr(metamodel, p[1]) \o ": \"" \o ks[i] \o "\" is not a valid key"]

\* the missing-field errors of p, in declared-child order
MissingErrors(p) ==
    LET Missing(k) == ~HasKey(p[2], k)
        ks == SelectSeq(ChildrenNames(metamodel, p[1]), Missing)
    IN [i \in DOMAIN ks |->
            DiscrepancyLine(metamodel,
                [what |-> "missing", at |-> p[1], key |-> ks[i], got |-> ""])]

\* the errors of the child named k of p
ChildErrors(p, k) ==
    TypeChecker_AcceptVisitor(metamodel, Child(metamodel, p[1], k), GetItem(p[2], k), <<>>)

\* the errors of the children present in both, in declared-child order
RecursedDeclaredOrder(p) ==
    LET Present(k) == HasKey(p[2], k)
        ks == SelectSeq(ChildrenNames(metamodel, p[1]), Present)
    IN Flatten([i \in DOMAIN ks |-> ChildErrors(p, ks[i])])

\* the errors of the children present in both, in candidate iteration order
RecursedCandidateOrder(p) ==
    LET Present(k) == k \in Range(ChildrenNames(metamodel, p[1]))
        ks == SelectSeq(Keys(p[2]), Present)
    IN Flatten([i \in DOMAIN ks |-> ChildErrors(p, ks[i])])

\* C3 as stated: the errors of a Group with a map-shaped candidate are the
\* unknown-key errors (candidate order), then the errors of the children
\* present in both (declared-child order), then the missing-field errors
\* (declared-child order)
C3_UnknownThenRecursedThenMissing ==
    op.name = "TypeCheck" =>
        \A p \in GroupPositions(metamodel, Candidate) :
            GroupErrors(p) = UnknownErrors(p) \o RecursedDeclaredOrder(p) \o MissingErrors(p)

\* C3: the errors of a Group with a map-shaped candidate end with the
\* missing-field errors in declared-child order; before them come the
\* unknown-key errors and the errors of the children present in both, each
\* of the two kinds in candidate iteration order, mixed in one pass over the
\* candidate's keys (an unknown-key error is not moved ahead of the errors
\* of a child whose key precedes it)
C3_CandidateOrderThenMissing ==
    op.name = "TypeCheck" =>
        \A p \in GroupPositions(metamodel, Candidate) :
            LET E == GroupErrors(p)
                U == UnknownErrors(p)
                R == RecursedCandidateOrder(p)
                M == MissingErrors(p)
                IsUnknown(e) == e \in Range(U)
                IsRecursed(e) == e \notin Range(U)
                Pre == SubSeq(E, 1, Len(E) - Len(M))
            IN /\ Len(E) = Len(U) + Len(R) + Len(M)
               /\ SubSeq(E, Len(E) - Len(M) + 1, Len(E)) = M
               /\ SelectSeq(Pre, IsUnknown) = U
               /\ SelectSeq(Pre, IsRecursed) = R
               /\ \A i \in DOMAIN p[2].items :
                     LET k == p[2].items[i].k
                         before == SubSeq(p[2].items, 1, i - 1)
                         KnownItem(it) == it.k \in Range(ChildrenNames(metamodel, p[1]))
                         known == SelectSeq(before, KnownItem)
                         sofar == Flatten([j \in DOMAIN known |-> ChildErrors(p, known[j].k)])
                     IN k \notin Range(ChildrenNames(metamodel, p[1])) =>
                          E[Len(sofar) + (i - 1 - Len(known)) + 1]
                             = PathStr(metamodel, p[1]) \o ": \"" \o k \o "\" is not a valid key"

\* a Group whose candidate has an unknown key after a child with errors, or
\* children with errors in an order other than the declared one
C3_Witness ==
    /\ op.name = "TypeCheck"
    /\ \E p \in GroupPositions(metamodel, Candidate) :
          /\ UnknownErrors(p) # <<>>
          /\ MissingErrors(p) # <<>>
          /\ RecursedCandidateOrder(p) # <<>>
          /\ GroupErrors(p) # UnknownErrors(p) \o RecursedDeclaredOrder(p) \o MissingErrors(p)

\* the errors of p that the walk of the candidate's keys produces: per key,
\* in candidate iteration order, its unknown-key error or the complete error
\* list of the matching child
CandidateWalkErrors(p) ==
    Flatten([i \in DOMAIN p[2].items |->
        IF p[2].items[i].k \in Range(ChildrenNames(metamodel, p[1]))
        THEN ChildErrors(p, p[2].items[i].k)
        ELSE <<PathStr(metamodel, p[1]) \o ": \"" \o p[2].items[i].k
               \o "\" is not a valid key">>])

\* TestTypeCheck.test_bad_data: the expected list
BAD_DATA_ERRORS ==
    << "top.bar: type mismatch (expected: int got: bool)",
       "top.baz.age: type mismatch (expected: int got: str)",
       "top.baz: \"hobby\" is not a valid key",
       "top.baz: missing \"name\" field [Type = str]",
       "top.teams: type mismatch (expected: dict got: int)",
       "top: \"etc\" is not a valid key" >>

\* C4: the errors of a Group with a map-shaped candidate are what one walk of
\* the candidate's keys in candidate iteration order produces (per key its
\* unknown-key error or the complete error list of the matching child),
\* followed by the missing-field errors in declared-child order; the bad
\* input of the test schema yields exactly the six expected lines in order
C4_OneWalkThenMissing ==
    op.name = "TypeCheck" =>
        /\ \A p \in GroupPositions(metamodel, Candidate) :
              GroupErrors(p) = CandidateWalkErrors(p) \o MissingErrors(p)
        /\ (metamodel = TEST_METAMODEL /\ Candidate = BAD_RAW_DATA)
              => result.errors = BAD_DATA_ERRORS

C4_Witness ==
    /\ op.name = "TypeCheck"
    /\ metamodel = TEST_METAMODEL
    /\ Candidate = BAD_RAW_DATA
    /\ Len(result.errors) = 6

\* C5: CreateTypecheckedModel succeeds exactly when TypeCheck returns the
\* empty list; on success errors is empty and the model holds the raw value
\* and the schema; on failure errors is the list of TypeCheck and there is no
\* model
C5_CreateIsTypeCheckThenConstruct ==
    op.name = "CreateTypecheckedModel" =>
        /\ result.success = (TypeCheck(metamodel, Candidate) = <<>>)
        /\ result.success =>
              /\ result.errors = <<>>
              /\ result.model # None
              /\ result.model.ty = "TypecheckedModel"
              /\ result.model.rawdata = Candidate
              /\ result.model.metamodel = metamodel
        /\ ~result.success =>
              /\ result.errors = TypeCheck(metamodel, Candidate)
              /\ result.model = None

C5_Witness ==
    /\ op.name = "CreateTypecheckedModel"
    /\ ~result.success
    /\ Len(result.errors) >= 2
    /\ result.model = None

\* a and b are the same nested mapping: maps with the same keys and
\* structurally equal values under each key (the order of the keys does not
\* matter), or scalars of the same type and value
RECURSIVE StructurallyEqual(_, _)
StructurallyEqual(a, b) ==
    /\ a.ty = b.ty
    /\ IF a.ty = "dict"
       THEN /\ Range(Keys(a)) = Range(Keys(b))
            /\ \A k \in Range(Keys(a)) : StructurallyEqual(GetItem(a, k), GetItem(b, k))
       ELSE a.n = b.n /\ a.s = b.s

\* C6: the diff of two models whose raw values conform to the same schema is
\* empty if and only if the raw values are structurally equal; the diff of a
\* conforming value with itself is empty
C6_DiffEmptyIffEqual ==
    (/\ op.name = "DiffTypecheckedModels"
     /\ Conforms(metamodel, metamodel.root, left.rawdata)
     /\ Conforms(metamodel, metamodel.root, right.rawdata))
        => /\ (result.errors = <<>>) <=> StructurallyEqual(left.rawdata, right.rawdata)
           /\ left.rawdata = right.rawdata => result.errors = <<>>

\* two conforming values that differ in a scalar, compared
C6_Witness ==
    /\ op.name = "DiffTypecheckedModels"
    /\ Conforms(metamodel, metamodel.root, left.rawdata)
    /\ Conforms(metamodel, metamodel.root, right.rawdata)
    /\ ~StructurallyEqual(left.rawdata, right.rawdata)
    /\ result.errors # <<>>

-----------------------------------------------------------------------------
(* Properties of the apply (Spec) *)

\* the value the raw value v holds for the node id
RECURSIVE ValueAt(_, _, _)
ValueAt(mm, id, v) ==
    IF id = mm.root THEN v
    ELSE GetItem(ValueAt(mm, mm.nodes[id].parent, v), mm.nodes[id].name)

\* the adapter calls of the last operation that are Writes
Writes == {i \in DOMAIN calls : calls[i].call = "Write"}

\* C7 as stated: when ReadSystemConfig has succeeded and the next operation
\* is ApplySystemConfig of the model just read with diffonly = True, the
\* apply invokes no adapter Write and returns an empty error list
C7_ReadThenDiffOnlyApplyIsQuiet ==
    [][(/\ op.name = "ReadSystemConfig"
        /\ ~result.raised
        /\ op'.name = "ApplySystemConfig"
        /\ op'.diffonly
        /\ op'.model = result.model)
          => (/\ ~result'.raised
              /\ result'.errors = <<>>
              /\ \A i \in DOMAIN calls' : calls'[i].call # "Write")]_vars

\* C8: in every run of ApplySystemConfig, diff-only or not, no Write is
\* invoked on the adapter of a node whose applyable flag is false: the
\* adapter of such a node is only Read
C8_NoWriteToNonApplyable ==
    op.name = "ApplySystemConfig" =>
        \A i \in DOMAIN calls :
            ~metamodel.nodes[calls[i].node].applyable => calls[i].call = "Read"

\* an apply with diff-only off that found a non-applyable node whose live
\* value differs from the desired one, and went on to write a later node
C8_Witness ==
    /\ op.name = "ApplySystemConfig"
    /\ ~op.diffonly
    /\ \E i \in DOMAIN calls :
          /\ ~metamodel.nodes[calls[i].node].applyable
          /\ calls[i].call = "Read"
          /\ calls[i].exc = ""
          /\ ~PyEq(calls[i].value, ValueAt(metamodel, calls[i].node, op.model.rawdata))
          /\ \E j \in Writes : j > i

\* C9 as stated: the error list an apply returns holds, for every
\* non-applyable node whose value Read during the apply differs from the
\* desired one, the path-qualified "difference in non-applyable value" entry
C9_NonApplyableDifferenceReported ==
    (op.name = "ApplySystemConfig" /\ ~result.raised) =>
        \A i \in DOMAIN calls :
            LET id == calls[i].node
                desired == ValueAt(metamodel, id, op.model.rawdata)
            IN (/\ ~metamodel.nodes[id].applyable
                /\ calls[i].call = "Read"
                /\ calls[i].exc = ""
                /\ ~PyEq(calls[i].value, desired))
                  => \E j \in DOMAIN result.errors :
                        result.errors[j] =
                            PathStr(metamodel, id)
                            \o ": difference in non-applyable value (desired = "
                            \o PyFormat(desired) \o " actual = "
                            \o PyFormat(calls[i].value) \o ")"

\* C10 as stated: the error list an apply returns holds one entry naming the
\* path of the node for every adapter Write that failed, so that an empty
\* list means that no Write failed
C10_WriteFailureReported ==
    (op.name = "ApplySystemConfig" /\ ~result.raised) =>
        /\ \A i \in Writes :
              calls[i].exc # "" =>
                 \E j \in DOMAIN result.errors :
                    result.errors[j] =
                        "When applying " \o PathStr(metamodel, calls[i].node)
                        \o ": " \o calls[i].exc
        /\ result.errors = <<>> => \A i \in Writes : calls[i].exc = ""

\* what an adapter call asked for, whatever came of it
CallShape(c) == [call |-> c.call, node |-> c.node, value |-> c.value]
CallShapes(cs) == [i \in DOMAIN cs |-> CallShape(cs[i])]

\* the same apply on the same live system with every file writable
WithWritableFiles(model, diffonly_) ==
    ApplySystemConfig(model, diffonly_, System(files, {}, release))

\* C11: a failing adapter Write does not abort ApplySystemConfig: the nodes
\* after it are visited, compared and written exactly as they are when the
\* Write succeeds, and the apply ends as it does then (it returns normally
\* unless something other than a Write raises)
C11_WriteFailureDoesNotAbort ==
    [][(/\ op'.name = "ApplySystemConfig"
        /\ \E i \in DOMAIN calls' : calls'[i].call = "Write" /\ calls'[i].exc # "")
          => (/\ CallShapes(calls') = CallShapes(WithWritableFiles(op'.model, op'.diffonly).calls)
              /\ result'.raised = WithWritableFiles(op'.model, op'.diffonly).raised
              /\ \A i \in DOMAIN calls' :
                    (calls'[i].call = "Write" /\ calls'[i].exc # "")
                        => result'.exc # calls'[i].exc)]_vars

\* an apply that returned after a Write failed and later nodes were written
C11_Witness ==
    /\ op.name = "ApplySystemConfig"
    /\ ~result.raised
    /\ \E i \in Writes :
          /\ calls[i].exc # ""
          /\ \E j \in Writes : j > i /\ calls[j].exc = ""

\* the nodes with an adapter that the traversal comes to when nothing
\* raises: those with no adapter on a Group above them
RECURSIVE UnderAdapter(_, _)
UnderAdapter(mm, id) ==
    /\ mm.nodes[id].parent # 0
    /\ \/ mm.nodes[mm.nodes[id].parent].plug # NoPlug
       \/ UnderAdapter(mm, mm.nodes[id].parent)

AdapterNodes(mm) ==
    {id \in DOMAIN mm.nodes : mm.nodes[id].plug # NoPlug /\ ~UnderAdapter(mm, id)}

\* the adapter calls of the last operation on the node id, as indices
CallsOn(id) == {i \in DOMAIN calls : calls[i].node = id}

\* the node id was visited by the last apply
Visited(id) == CallsOn(id) # {} \/ (~result.raised /\ id \in AdapterNodes(metamodel))

\* C12: an applyable node with an adapter that an apply visits is written
\* exactly once, with the desired value and without being read, when
\* diff-only is off; when diff-only is on it is read first, and then written
\* exactly once if the value read differs from the desired one, and not
\* written if the value read equals it
C12_WriteExactlyWhenNeeded ==
    op.name = "ApplySystemConfig" =>
        \A id \in {n \in DOMAIN metamodel.nodes :
                     /\ metamodel.nodes[n].applyable
                     /\ metamodel.nodes[n].plug # NoPlug
                     /\ Visited(n)} :
            LET desired == ValueAt(metamodel, id, op.model.rawdata)
                first == CHOOSE i \in CallsOn(id) : \A j \in CallsOn(id) : i <= j
                write == [call |-> "Write", node |-> id, value |-> desired]
            IN /\ CallsOn(id) # {}
               /\ ~op.diffonly =>
                     /\ CallsOn(id) = {first}
                     /\ CallShape(calls[first]) = write
               /\ op.diffonly =>
                     /\ calls[first].call = "Read"
                     /\ (calls[first].exc = "" /\ StructurallyEqual(calls[first].value, desired))
                           => CallsOn(id) = {first}
                     /\ (calls[first].exc = "" /\ ~StructurallyEqual(calls[first].value, desired))
                           => /\ CallsOn(id) = {first, first + 1}
                              /\ CallShape(calls[first + 1]) = write
                     /\ calls[first].exc # "" => CallsOn(id) = {first} /\ result.raised

\* a diff-only apply that wrote one applyable node, whose value differed, and
\* left another alone, whose value was the desired one
C12_Witness ==
    /\ op.name = "ApplySystemConfig"
    /\ op.diffonly
    /\ ~result.raised
    /\ \E i \in Writes : metamodel.nodes[calls[i].node].applyable
    /\ \E id \in AdapterNodes(metamodel) :
          /\ metamodel.nodes[id].applyable
          /\ Cardinality(CallsOn(id)) = 1

\* the nodes below and including id, depth first in declaration order
RECURSIVE DeclarationOrder(_, _)
RECURSIVE DeclarationOrderOfChildren(_, _, _)
DeclarationOrderOfChildren(mm, id, i) ==
    IF i > Len(mm.nodes[id].children) THEN <<>>
    ELSE DeclarationOrder(mm, mm.nodes[id].children[i])
            \o DeclarationOrderOfChildren(mm, id, i + 1)

DeclarationOrder(mm, id) == <<id>> \o DeclarationOrderOfChildren(mm, id, 1)

\* the nodes whose adapter a traversal uses, in declaration order
AdapterOrder(mm) ==
    LET Used(id) == id \in AdapterNodes(mm)
    IN SelectSeq(DeclarationOrder(mm, mm.root), Used)

\* C13: when an adapter Read fails during ReadSystemConfig, the operation
\* raises that failure and returns no model; the adapters read are those
\* that come before the failing one in declaration order, each read once and
\* successfully, then the failing one, and none after it; no adapter is
\* written and the live system is left as it was
C13_ReadFailurePropagates ==
    [][(/\ op'.name = "ReadSystemConfig"
        /\ \E i \in DOMAIN calls' : calls'[i].exc # "")
          => (/\ result'.raised
              /\ result'.exc = calls'[Len(calls')].exc
              /\ result'.model = None
              /\ right' = right
              /\ Len(calls') <= Len(AdapterOrder(metamodel))
              /\ \A i \in DOMAIN calls' :
                    /\ calls'[i].call = "Read"
                    /\ calls'[i].node = AdapterOrder(metamodel)[i]
                    /\ (calls'[i].exc # "") <=> (i = Len(calls'))
              /\ files' = files)]_vars

\* a ReadSystemConfig whose failing Read came after a successful one and
\* before an adapter that was then never read
C13_Witness ==
    /\ op.name = "ReadSystemConfig"
    /\ result.raised
    /\ Len(calls) >= 2
    /\ Len(calls) < Len(AdapterOrder(metamodel))
    /\ calls[Len(calls)].exc # ""

\* id is the child its parent declared last
IsLastSibling(mm, id) ==
    LET ch == mm.nodes[mm.nodes[id].parent].children
    IN ch[Len(ch)] = id

\* one column of four characters for every ancestor of id below the root,
\* the outermost first
RECURSIVE AncestorColumns(_, _)
AncestorColumns(mm, id) ==
    LET p == mm.nodes[id].parent
    IN IF id = mm.root \/ p = mm.root THEN ""
       ELSE AncestorColumns(mm, p) \o (IF IsLastSibling(mm, p) THEN "    " ELSE " |  ")

\* the line of the node id
TreeLine(mm, id) ==
    AncestorColumns(mm, id)
       \o (IF id = mm.root THEN ""
           ELSE IF IsLastSibling(mm, id) THEN " L-- " ELSE " +-- ")
       \o mm.nodes[id].name \o ": " \o mm.nodes[id].helpstring
       \o (IF mm.nodes[id].applyable THEN " [Ap]" ELSE " [RO]")
       \o (IF mm.nodes[id].kind = "Scalar"
           THEN " [Type = " \o mm.nodes[id].ty \o "]" ELSE "")

\* one line for every node, depth first in declaration order
TreeText(mm) ==
    LET order == DeclarationOrder(mm, mm.root)
    IN Join([i \in DOMAIN order |-> TreeLine(mm, order[i]) \o "\n"], "")

\* C14: PrintTree writes one line per node, depth first in declaration
\* order: the root as "name: help [Ap|RO]", every other node behind the
\* last-child marker exactly when it is the last declared child of its
\* parent and behind the other marker otherwise, preceded by one column per
\* ancestor below the root (the bar column when that ancestor is not a last
\* sibling, four spaces when it is); Scalars carry "[Type = <type>]"; the
\* text is determined by the schema
C14_PrintTreeLines ==
    op.name = "PrintTree" => output = TreeText(metamodel)

\* a printed schema with a node three levels down whose two ancestors below
\* the root take different columns
C14_Witness ==
    /\ op.name = "PrintTree"
    /\ \E leaf, g2, g1 \in DOMAIN metamodel.nodes :
          /\ metamodel.nodes[leaf].parent = g2
          /\ metamodel.nodes[g2].parent = g1
          /\ metamodel.nodes[g1].parent = metamodel.root
          /\ IsLastSibling(metamodel, g2) # IsLastSibling(metamodel, g1)

\* the Groups that hold the node id as a child
GroupsHolding(nodes, id) ==
    {g \in DOMAIN nodes : \E i \in DOMAIN nodes[g].children : nodes[g].children[i] = id}

\* the rejected constructions: a name the target Group already holds
IsConstruction(o) == o.name \in {"FixedDict", "Scalar"}

\* C15: after any sequence of constructions the children of every Group have
\* pairwise distinct names, every node is a child of at most one Group, once,
\* and that Group is its parent; a construction is rejected, with an
\* AssertionError, exactly when its name is already registered in the target
\* Group, and it leaves every Group's children as they were
C15_ChildrenDistinctAndOwned ==
    /\ [](\A g \in DOMAIN metamodel.nodes :
             /\ \A i, j \in DOMAIN metamodel.nodes[g].children :
                   metamodel.nodes[metamodel.nodes[g].children[i]].name
                      = metamodel.nodes[metamodel.nodes[g].children[j]].name => i = j
             /\ Cardinality(GroupsHolding(metamodel.nodes, g)) <= 1
             /\ \A h \in GroupsHolding(metamodel.nodes, g) : metamodel.nodes[g].parent = h)
    /\ [][IsConstruction(op') =>
            /\ result'.raised <=>
                  /\ op'.arg # 0
                  /\ \E i \in DOMAIN metamodel.nodes[op'.arg].children :
                        metamodel.nodes[metamodel.nodes[op'.arg].children[i]].name = op'.node
            /\ result'.raised =>
                  /\ result'.exc = "AssertionError"
                  /\ metamodel'.nodes = metamodel.nodes]_vars

\* a construction rejected by a Group that already holds two children
C15_Witness ==
    /\ IsConstruction(op)
    /\ result.raised
    /\ Len(metamodel.nodes[op.arg].children) = 2

\* C16 as stated: an apply never raises at a Group without an adapter,
\* whatever its applyable flag: it raises only when an adapter Read failed,
\* and otherwise its adapter calls go through every adapter below every such
\* Group, in declaration order
C16_PluglessGroupsRecursed ==
    op.name = "ApplySystemConfig" =>
        /\ result.raised => \E i \in DOMAIN calls : calls[i].call = "Read" /\ calls[i].exc # ""
        /\ ~result.raised =>
              \A id \in AdapterNodes(metamodel) : CallsOn(id) # {}

\* the nodes of the adapter calls of the last operation, a node called
\* twice in a row (read, then written) taken once
RECURSIVE CalledNodes(_)
CalledNodes(cs) ==
    IF cs = <<>> THEN <<>>
    ELSE IF Len(cs) >= 2 /\ cs[1].node = cs[2].node THEN CalledNodes(Tail(cs))
    ELSE <<cs[1].node>> \o CalledNodes(Tail(cs))

\* the Scalars whose values differ between the raw values l and r, in
\* declaration order
DifferingScalars(mm, l, r) ==
    LET Differs(id) ==
            /\ mm.nodes[id].kind = "Scalar"
            /\ ~StructurallyEqual(ValueAt(mm, id, l), ValueAt(mm, id, r))
    IN SelectSeq(DeclarationOrder(mm, mm.root), Differs)

\* the diff entry of the Scalar id
DiffEntry(mm, id, l, r) ==
    mm.nodes[id].name \o ": file = " \o PyFormat(ValueAt(mm, id, l))
        \o " | system = " \o PyFormat(ValueAt(mm, id, r))

\* whether the keys of some map of v are in another order than the schema
\* declares them
RECURSIVE KeysOutOfOrder(_, _, _)
KeysOutOfOrder(mm, id, v) ==
    /\ mm.nodes[id].kind = "FixedDict"
    /\ v.ty = "dict"
    /\ \/ Keys(v) # ChildrenNames(mm, id)
       \/ \E k \in Range(Keys(v)) \cap Range(ChildrenNames(mm, id)) :
             KeysOutOfOrder(mm, Child(mm, id, k), GetItem(v, k))

\* C17: the adapters ReadSystemConfig reads, the adapters ApplySystemConfig
\* reads and writes, and the entries DiffTypecheckedModels returns are each in
\* depth-first declaration order of the schema, whatever the order of the
\* keys in the raw values: the nodes called are an initial part of the
\* adapters in declaration order (all of them when no call raised), and the
\* diff entries are those of the differing Scalars in declaration order
C17_DeclarationOrder ==
    /\ op.name \in {"ReadSystemConfig", "ApplySystemConfig"} =>
          /\ Len(CalledNodes(calls)) <= Len(AdapterOrder(metamodel))
          /\ CalledNodes(calls) = SubSeq(AdapterOrder(metamodel), 1, Len(CalledNodes(calls)))
          /\ (\/ ~result.raised
              \/ /\ op.name = "ReadSystemConfig"
                 /\ \A i \in DOMAIN calls : calls[i].exc = "")
                => CalledNodes(calls) = AdapterOrder(metamodel)
    /\ op.name = "DiffTypecheckedModels" =>
          LET differing == DifferingScalars(metamodel, left.rawdata, right.rawdata)
          IN result.errors =
                [i \in DOMAIN differing |->
                    DiffEntry(metamodel, differing[i], left.rawdata, right.rawdata)]

\* an apply of a model whose keys are not in declaration order that called
\* more than one adapter
C17_Witness ==
    /\ op.name = "ApplySystemConfig"
    /\ ~result.raised
    /\ KeysOutOfOrder(metamodel, metamodel.root, op.model.rawdata)
    /\ Len(CalledNodes(calls)) >= 2

\* a diff of more than one entry, the file's keys not in declaration order
C17_DiffOfReorderedFile ==
    /\ op.name = "DiffTypecheckedModels"
    /\ KeysOutOfOrder(metamodel, metamodel.root, left.rawdata)
    /\ Len(result.errors) >= 2

\* the tokens of the text s, as <<first, last>> positions: the maximal runs
\* of characters that are not whitespace
Tokens(s) ==
    {<<i, j>> \in (1..Len(s)) \X (1..Len(s)) :
        /\ i <= j
        /\ \A k \in i..j : CharAt(s, k) \notin Whitespace
        /\ i = 1 \/ CharAt(s, i - 1) \in Whitespace
        /\ j = Len(s) \/ CharAt(s, j + 1) \in Whitespace}

\* the tokens that start with "[" and end with "]"
BracketedTokens(s) ==
    {t \in Tokens(s) : CharAt(s, t[1]) = "[" /\ CharAt(s, t[2]) = "]"}

\* C18: whatever the backing text, ThpOptionPlug.Read returns the first
\* token that starts with "[" and ends with "]", without the two brackets,
\* and raises exactly when there is no such token; ThpOptionPlug.Write(v)
\* leaves exactly v as the backing text
C18_ThpOptionReadWrite ==
    /\ op.name = "ThpOptionPlug.Read" =>
          LET text == files[THP_FILE]
              first == CHOOSE t \in BracketedTokens(text) :
                          \A u \in BracketedTokens(text) : t[1] <= u[1]
          IN /\ result.raised <=> BracketedTokens(text) = {}
             /\ ~result.raised =>
                   result.model = PyStr(SubSeq(text, first[1] + 1, first[2] - 1))
    /\ op.name = "ThpOptionPlug.Write" =>
          /\ ~result.raised
          /\ files[THP_FILE] = op.value.s

\* a Read of a text with two bracketed tokens of different content
C18_Witness ==
    /\ op.name = "ThpOptionPlug.Read"
    /\ ~result.raised
    /\ \E t, u \in BracketedTokens(files[THP_FILE]) :
          SubSeq(files[THP_FILE], t[1], t[2]) # SubSeq(files[THP_FILE], u[1], u[2])

\* the Group id of mm has a child of that name
HasChild(mm, id, name) == name \in Range(ChildrenNames(mm, id))

\* C19 as stated: the metamodel generated for a kernel release has the
\* lru_gen subtree exactly when the release is 6.1 or later (w above 6, or w
\* = 6 and x at least 1), and has kvn, ksm, numa, swap and
\* transparent_hugepage with its khugepaged for every release
C19_LruGenFromSixOne ==
    (op.name = "SystemMetamodel" /\ ~result.raised) =>
        LET kvn == KernelVersionNumber(release)
        IN /\ HasChild(metamodel, metamodel.root, "lru_gen")
                 <=> (kvn.w > 6 \/ (kvn.w = 6 /\ kvn.x >= 1))
           /\ \A name \in {"kvn", "ksm", "numa", "swap", "transparent_hugepage"} :
                 HasChild(metamodel, metamodel.root, name)
           /\ HasChild(metamodel, Child(metamodel, metamodel.root, "transparent_hugepage"),
                       "khugepaged")

\* the files after the Writes among the adapter calls cs, made in that
\* order on the files fs
RECURSIVE FilesAfter(_, _, _)
FilesAfter(mm, cs, fs) ==
    IF cs = <<>> THEN fs
    ELSE FilesAfter(mm, Tail(cs),
            IF cs[1].call = "Write"
            THEN Plug_Write(mm.nodes[cs[1].node].plug, cs[1].value,
                            System(fs, readonly, release)).files
            ELSE fs)

\* C20: when an adapter Read fails during ApplySystemConfig (the Read of the
\* diff-only comparison or of the non-applyable check), the apply raises that
\* failure and returns no error list; the failing Read is the last adapter
\* call, the nodes called are those before the failing one in declaration
\* order and then the failing one, and the files are as the Writes made
\* before the failure left them
C20_ApplyReadFailurePropagates ==
    [][(/\ op'.name = "ApplySystemConfig"
        /\ \E i \in DOMAIN calls' : calls'[i].call = "Read" /\ calls'[i].exc # "")
          => (/\ result'.raised
              /\ result'.exc = calls'[Len(calls')].exc
              /\ result'.errors = <<>>
              /\ \A i \in DOMAIN calls' :
                    (calls'[i].call = "Read" /\ calls'[i].exc # "") <=> (i = Len(calls'))
              /\ Len(CalledNodes(calls')) <= Len(AdapterOrder(metamodel))
              /\ CalledNodes(calls')
                    = SubSeq(AdapterOrder(metamodel), 1, Len(CalledNodes(calls')))
              /\ files' = FilesAfter(metamodel, calls', files))]_vars

\* an apply that wrote a file, changing it, then raised at a failed Read with
\* an adapter left uncalled
C20_Witness ==
    /\ op.name = "ApplySystemConfig"
    /\ result.raised
    /\ calls # <<>>
    /\ calls[Len(calls)].call = "Read"
    /\ calls[Len(calls)].exc # ""
    /\ \E i \in Writes :
          LET f == metamodel.nodes[calls[i].node].plug.file
          IN calls[i].exc = "" /\ files[f] # BaselineFiles(metamodel)[f]
    /\ Len(CalledNodes(calls)) < Len(AdapterOrder(metamodel))

====
